---- MODULE Spec2Model ----
(***************************************************************************)
(* Model of the authentication core of Backend_Template:                   *)
(*   AuthService  (src/src/notification/notification.service.ts 308-727)   *)
(*   JwtStrategy  (src/src/auth/strategies/jwt.strategy.ts 7-48)           *)
(*   UserService  (src/unnamed/part_000)                                   *)
(*   NotificationService (src/src/notification/notification.service.ts)    *)
(* Time is counted in whole minutes.  A handler is a sequence of steps: a  *)
(* step is the resolution of an awaited store access, bcrypt.compare, SMS  *)
(* or mail call together with the synchronous code that follows it up to   *)
(* the next such await.  The await of bcrypt.hash and the one of           *)
(* validatePhoneNumber are taken together with the store access that       *)
(* follows them: between the two the code reads neither the store nor the  *)
(* clock and returns nothing.  resetPassword reads the clock while it      *)
(* builds its first query: the sending of that query is a step of its own. *)
(* A call is served in a request slot; the steps of the calls in the slots *)
(* interleave freely, and the clock advances at any moment, also while     *)
(* calls are in flight; it is read at the instants of a small set.         *)
(***************************************************************************)
EXTENDS Integers, Sequences, FiniteSets, TLC

\* the user table, the next id of its sequence, the clock, the OTP issues
\* written so far, the access tokens signed so far and the request slots
VARIABLES users, nextId, now, issues, tokens, procs

\* what the step just taken returned to the caller of an AuthService,
\* UserService or JwtStrategy call (NoResult when it returned nothing)
VARIABLES result

\* history: TRUE as long as every call so far started while no other call
\* was in flight (the calls were made one at a time)
VARIABLES serial

\* the marketing subsystem: stored notifications and preferences, the
\* marketing emails handed to the mail service so far, the send requests in
\* flight
VARIABLES notifications, preferences, outbox, senders

\* history: how many values crypto.randomBytes has produced for reset tokens
VARIABLES minted

\* what the step just taken returned to the caller of a NotificationService
\* call (NoReply when it returned nothing)
VARIABLES reply

mvars == <<notifications, preferences, outbox, senders>>

vars == <<users, nextId, now, result, reply, issues, tokens, procs, serial, minted, mvars>>

(***************************************************************************)
(* Program constants                                                       *)
(***************************************************************************)
otpExpiryMinutes == 10
otpDailyLimit == 3
otpMinIntervalMinutes == 5
ResetTokenMinutes == 60
JwtExpiryMinutes == 30
DayMinutes == 1440
OtpBase == 100000
OtpSpan == 900000

(***************************************************************************)
(* Bounds of the model                                                     *)
(***************************************************************************)
StartTime == 1426
MaxTime == 1516
MaxUsers == 2
RandDenominator == 1000
MaxTokens == 2

\* the instants at which the clock is read after StartTime: five minutes
\* apart up to the first minutes of the next calendar date, and half an
\* hour apart
GridInstants == {StartTime + 5, StartTime + 10, StartTime + 15}
HalfHourInstants == {StartTime + 30, StartTime + 60}

Procs == {1, 2}
RandomSamples == {0, RandDenominator - 1}

(***************************************************************************)
(* Null values of the nullable columns                                     *)
(***************************************************************************)
NullStr == <<>>
NullTime == -1
NullToken == ""
NoPayload == [sub |-> 0, email |-> "", phone |-> "", role |-> "", iat |-> NullTime, exp |-> NullTime]

(***************************************************************************)
(* Input alphabets                                                         *)
(***************************************************************************)
CanonicalPhone == "+2348012345678"
SecondPhone == "+2348087654321"
RawPhones == {"08012345678", "+2348012345678", "12345"}
LocalPhones == {"08012345678", "+2348012345678", "08087654321"}
SignUpEmails == {"a@x.io"}
NoRest == {<<>>}
Emails == {"a@x.io", "b@x.io"}
Passwords == {"StrongPass123!", "Other456?"}
SignUpPasswords == {"StrongPass123!"}
NewPasswords == {"Other456?"}
LookupPhones == {"+2348012345678", "08012345678"}

\* crypto.randomBytes(32).toString('hex'): the values in the order in which
\* they are produced; no value is produced twice
HexTokens == <<"9f3a", "c07e", "e51b", "77d0">>

\* a string that is the value of no randomBytes call
UnissuedToken == "0000"

\* the tokens a caller of resetPassword can present when n were produced
PresentableTokens(n) == {HexTokens[k] : k \in 1..n} \cup {UnissuedToken}

(***************************************************************************)
(* Pure helpers                                                            *)
(***************************************************************************)
\* Number.prototype.toString of a non-negative integer: its decimal digits.
RECURSIVE ToDigits(_)
ToDigits(n) == IF n < 10 THEN <<n>> ELSE Append(ToDigits(n \div 10), n % 10)

\* Math.floor(100000 + Math.random() * 900000).toString(), the random
\* number being r / RandDenominator in [0, 1).
GenerateOtp(r) == ToDigits(OtpBase + (r * OtpSpan) \div RandDenominator)

OtpCodes == {GenerateOtp(r) : r \in RandomSamples}

\* a password stored as it was given
AsGiven(pw) == <<"plain", 0, pw>>

\* bcrypt.hash(password, 10) and bcrypt.compare(password, hash)
BcryptHash(pw) == <<"bcrypt", 10, pw>>
BcryptCompare(pw, hash) == hash = BcryptHash(pw)

\* Date.prototype.toDateString: the calendar date of an instant.
DateOf(t) == t \div DayMinutes

\* SmsService.validatePhoneNumber: canonical international format or reject.
ValidatePhoneNumber(raw) ==
  IF raw = "08012345678" \/ raw = "+2348012345678"
    THEN [isValid |-> TRUE, formattedNumber |-> CanonicalPhone]
  ELSE IF raw = "08087654321" \/ raw = "+2348087654321"
    THEN [isValid |-> TRUE, formattedNumber |-> SecondPhone]
    ELSE [isValid |-> FALSE, formattedNumber |-> ""]

\* prisma.user.findUnique({ where: { phone } }) etc.: ids matching a key.
ByPhone(us, phone) == {i \in DOMAIN us : us[i].phone = phone}
ByEmail(us, email) == {i \in DOMAIN us : us[i].email = email}
ById(us, id) == {i \in DOMAIN us : i = id}
Pick(S) == CHOOSE i \in S : TRUE

\* prisma.user.update({ where: { id }, data })
StoreUpdate(us, id, data) ==
  [us EXCEPT ![id] = [f \in DOMAIN us[id] |-> IF f \in DOMAIN data THEN data[f] ELSE us[id][f]]]

\* { ...literals, ...rest }: a field of rest replaces the field of that name
SpreadLast(base, rest) ==
  [f \in DOMAIN base |-> IF f \in DOMAIN rest THEN rest[f] ELSE base[f]]

\* the columns a create leaves to the schema
SchemaDefaults(email, phone, password) ==
  [email |-> email, phone |-> phone, password |-> password, role |-> "USER",
   isActive |-> TRUE, isPhoneVerified |-> FALSE, isEmailVerified |-> FALSE,
   phoneVerificationOTP |-> NullStr, phoneVerificationOTPExpires |-> NullTime,
   emailVerificationOTP |-> NullStr, emailVerificationOTPExpires |-> NullTime,
   resetPasswordOTP |-> NullStr, resetPasswordOTPExpires |-> NullTime,
   resetPasswordToken |-> NullToken, resetPasswordExpires |-> NullTime,
   lastOtpRequestTime |-> NullTime, otpRequestCount |-> 0]

\* The data of signUp's create (notification.service.ts 354-365): the
\* normalized phone, the hash, isPhoneVerified false, isEmailVerified true,
\* then the remaining fields of the DTO, which are spread last.
NewUser(email, phone, hashedPassword, rest) ==
  SpreadLast([SchemaDefaults(email, phone, hashedPassword)
                EXCEPT !.isPhoneVerified = FALSE, !.isEmailVerified = TRUE], rest)

\* prisma.user.create({ data }): the row is stored under a fresh id.
StoreCreate(us, id, row) == [i \in DOMAIN us \cup {id} |-> IF i = id THEN row ELSE us[i]]

\* prisma.user.delete({ where: { id } })
StoreDelete(us, id) == [i \in DOMAIN us \ {id} |-> us[i]]

(***************************************************************************)
(* OTP engine: the rate-limit checks shared by both issue paths            *)
(***************************************************************************)
\* variant: the comparison of the interval check is inverted
TooSoonInverted(user, t) ==
  /\ user.lastOtpRequestTime # NullTime
  /\ t - user.lastOtpRequestTime > otpMinIntervalMinutes

\* minutesSinceLastRequest < this.otpMinIntervalMinutes
TooSoon(user, t) ==
  /\ user.lastOtpRequestTime # NullTime
  /\ t - user.lastOtpRequestTime < otpMinIntervalMinutes

\* lastRequestDate.toDateString() !== today.toDateString()
DateChanged(user, t) ==
  /\ user.lastOtpRequestTime # NullTime
  /\ DateOf(user.lastOtpRequestTime) # DateOf(t)

\* variant: the daily cap is compared with > instead of >=
OverDailyLimitOffByOne(user) == user.otpRequestCount > otpDailyLimit

\* user.otpRequestCount >= this.otpDailyLimit, on the row as it was read
OverDailyLimit(user) == user.otpRequestCount >= otpDailyLimit

\* new Date(Date.now() + this.otpExpiryMinutes * 60 * 1000)
OtpExpiry(t) == t + otpExpiryMinutes


\* how an OTP attempt ended: the error it raised ("ok": none) and what
\* became of the SMS
Outcome(status, msg, sms) == [status |-> status, msg |-> msg, sms |-> sms]

\* history of an identity's OTP issues that passed every check: how many were
\* written with a request time on each calendar date (days), the date of the
\* request time written last and the count of that date, that request time,
\* and the first code written to each of the two slots
IssuesOn(iss, id, date) ==
  IF id \in DOMAIN iss /\ date \in DOMAIN iss[id].days THEN iss[id].days[date] ELSE 0

NoFirst == [phone |-> NullStr, reset |-> NullStr]

CountIssue(iss, id, t, op, code) ==
  LET slot == IF op = "generatePasswordResetOTP" THEN "reset" ELSE "phone"
      first == IF id \in DOMAIN iss THEN iss[id].first ELSE NoFirst
      days == IF id \in DOMAIN iss THEN iss[id].days ELSE <<>>
      n == IssuesOn(iss, id, DateOf(t)) + 1
  IN [i \in DOMAIN iss \cup {id} |->
        IF i = id THEN [date |-> DateOf(t), n |-> n, at |-> t,
                        days |-> [d \in DOMAIN days \cup {DateOf(t)} |-> IF d = DateOf(t) THEN n ELSE days[d]],
                        first |-> IF first[slot] = NullStr THEN [first EXCEPT ![slot] = code] ELSE first]
                  ELSE iss[i]]

Res(op, key, uid, otp, pw, status, msg, sms, mail, token) ==
  [op |-> op, key |-> key, uid |-> uid, otp |-> otp, pw |-> pw, status |-> status,
   msg |-> msg, sms |-> sms, mail |-> mail, token |-> token, aux |-> "", expires |-> NullTime]

\* the step returned nothing
NoResult == Res("none", "", 0, NullStr, "", "ok", "", "none", "none", NoPayload)

UidOf(S) == IF S = {} THEN 0 ELSE Pick(S)

\* the code handed to the SMS gateway by the request q whose OTP attempt
\* ended with outcome o
SmsCode(q, o) == IF o.sms = "none" THEN NullStr ELSE q.otp

\* the columns of a row that a call reads again after a later await
Columns(row, fields) == [f \in fields |-> row[f]]

NoRow == <<>>

\* a request slot of the server with no AuthService or UserService call in
\* flight.  A call in flight keeps in its slot its arguments and what it
\* has in its local variables and reads again after an await: the id of the
\* row it read (uid), the columns of that row it reads again (row), the
\* value of now (at), a computed expiry, a generated code or token.
IdleProc ==
  [pc |-> "idle", op |-> "", key |-> "", phone |-> "", email |-> "", uid |-> 0,
   row |-> NoRow, at |-> NullTime, expiry |-> NullTime, otp |-> NullStr,
   tok |-> NullToken, pw |-> "", payload |-> NoPayload]

\* the stats of a sendMarketingNotification result and the last marketing call
NoStats == [totalRecipients |-> 0, successCount |-> 0, failureCount |-> 0]

Reply(op, id, status, msg, stats) ==
  [op |-> op, id |-> id, status |-> status, msg |-> msg, stats |-> stats]

\* the step returned nothing from the NotificationService
NoReply == Reply("none", 0, "ok", "", NoStats)

\* a request slot with no NotificationService call in flight
IdleSender ==
  [pc |-> "idle", op |-> "", id |-> 0, data |-> <<>>, todo |-> <<>>, total |-> 0,
   successCount |-> 0, failureCount |-> 0, at |-> NullTime]

AllIdle == \A p \in Procs : procs[p].pc = "idle" /\ senders[p].pc = "idle"

\* the step in which a call starts: the calls stay made one at a time only
\* when no other call is in flight
Starts == serial' = (serial /\ AllIdle)

Init ==
  /\ users = <<>>
  /\ nextId = 1
  /\ now = StartTime
  /\ result = NoResult
  /\ issues = <<>>
  /\ tokens = {}
  /\ serial = TRUE
  /\ minted = 0
  /\ procs = [p \in Procs |-> IdleProc]
  /\ notifications = <<>>
  /\ preferences = <<>>
  /\ outbox = <<>>
  /\ senders = [p \in Procs |-> IdleSender]
  /\ reply = NoReply

\* The clock advances to the instant t, whatever the calls in flight are
\* doing.
Tick(t) ==
  /\ now < t
  /\ t <= MaxTime
  /\ now' = t
  /\ UNCHANGED <<users, nextId, issues, tokens, procs, serial, minted, mvars>>
  /\ result' = NoResult
  /\ reply' = NoReply

(***************************************************************************)
(* The store errors of prisma                                              *)
(***************************************************************************)
\* the error code with which prisma.user.update rejects the call: P2025 when
\* no row has the id, P2002 when the data would break the uniqueness of
\* email or phone; "" when the update is applied
StoreUpdateError(us, id, data) ==
  IF id \notin DOMAIN us THEN "P2025"
  ELSE IF "email" \in DOMAIN data /\ (\E i \in DOMAIN us \ {id} : us[i].email = data.email) THEN "P2002"
  ELSE IF "phone" \in DOMAIN data /\ (\E i \in DOMAIN us \ {id} : us[i].phone = data.phone) THEN "P2002"
  ELSE ""

\* variant: the store has no unique index on phone and email
StoreCreateErrorNone(us, row) == ""

\* the error code with which prisma.user.create rejects a row: P2002 when
\* its phone or its email is already stored (both columns are unique)
StoreCreateError(us, row) ==
  IF ByPhone(us, row.phone) # {} \/ ByEmail(us, row.email) # {} THEN "P2002" ELSE ""

\* a store error that no handler of AuthService catches
Uncaught(code) == Outcome("StoreError", code, "none")

(***************************************************************************)
(* AuthService.signUp: the two duplicate probes and the create are steps   *)
(* of their own; generatePhoneVerificationOTP(savedUser.id) then runs the  *)
(* steps of an OTP issue in the same slot.                                 *)
(***************************************************************************)
\* variant: signUp lets the error of the OTP attempt escape
SignUpReturnRaises(o) ==
  IF o.status = "ok"
    THEN [status |-> "ok",
          msg |-> "User created successfully. Please verify your phone number with the OTP sent to your phone."]
    ELSE [status |-> "BadRequest", msg |-> "Failed to create user"]

\* what signUp returns after the row was created: o is the outcome of the
\* OTP attempt, whose error the inner try/catch turns into a message
SignUpReturn(o) ==
  [status |-> "ok",
   msg |-> IF o.status = "ok"
             THEN "User created successfully. Please verify your phone number with the OTP sent to your phone."
             ELSE "User created successfully, but OTP sending failed. Please try to resend OTP."]

SignUpFailed(raw, email, pw, msg) ==
  [Res("signUp", raw, 0, NullStr, pw, "BadRequest", msg, "none", "none", NoPayload) EXCEPT !.aux = email]

\* variant: the email probe of signUp runs before the phone probe
SignUpProbePhoneEmailFirst(p, raw, email, pw, rest) ==
  LET phoneValidation == ValidatePhoneNumber(raw) IN
  /\ procs[p].pc = "idle"
  /\ IF ~phoneValidation.isValid THEN
       /\ result' = SignUpFailed(raw, email, pw, "Invalid phone number")
       /\ UNCHANGED procs
     ELSE IF ByEmail(users, email) # {} THEN
       /\ result' = SignUpFailed(raw, email, pw, "User with this email already exists")
       /\ UNCHANGED procs
     ELSE IF ByPhone(users, phoneValidation.formattedNumber) # {} THEN
       /\ result' = SignUpFailed(raw, email, pw, "User with this phone number already exists")
       /\ UNCHANGED procs
     ELSE
       /\ procs' = [procs EXCEPT ![p] =
            [IdleProc EXCEPT !.pc = "probeEmail", !.op = "signUp", !.key = raw,
                             !.phone = phoneValidation.formattedNumber, !.email = email, !.pw = pw,
                             !.row = NewUser(email, phoneValidation.formattedNumber, BcryptHash(pw), rest)]]
       /\ result' = NoResult
  /\ UNCHANGED <<users, nextId, now, minted, issues, tokens, mvars>>
  /\ reply' = NoReply
  /\ Starts

\* signUp: validatePhoneNumber and the probe by phone; the slot keeps the
\* row the create will be given
SignUpProbePhone(p, raw, email, pw, rest) ==
  LET phoneValidation == ValidatePhoneNumber(raw) IN
  /\ procs[p].pc = "idle"
  /\ IF ~phoneValidation.isValid THEN
       /\ result' = SignUpFailed(raw, email, pw, "Invalid phone number")
       /\ UNCHANGED procs
     ELSE IF ByPhone(users, phoneValidation.formattedNumber) # {} THEN
       /\ result' = SignUpFailed(raw, email, pw, "User with this phone number already exists")
       /\ UNCHANGED procs
     ELSE
       /\ procs' = [procs EXCEPT ![p] =
            [IdleProc EXCEPT !.pc = "probeEmail", !.op = "signUp", !.key = raw,
                             !.phone = phoneValidation.formattedNumber, !.email = email, !.pw = pw,
                             !.row = NewUser(email, phoneValidation.formattedNumber, BcryptHash(pw), rest)]]
       /\ result' = NoResult
  /\ UNCHANGED <<users, nextId, now, minted, issues, tokens, mvars>>
  /\ reply' = NoReply
  /\ Starts

\* signUp: the probe by email
SignUpProbeEmail(p) ==
  LET q == procs[p] IN
  /\ q.pc = "probeEmail"
  /\ IF ByEmail(users, q.email) # {} THEN
       /\ result' = SignUpFailed(q.key, q.email, q.pw, "User with this email already exists")
       /\ procs' = [procs EXCEPT ![p] = IdleProc]
     ELSE
       /\ procs' = [procs EXCEPT ![p].pc = "create"]
       /\ result' = NoResult
  /\ UNCHANGED <<users, nextId, now, minted, issues, tokens, serial, mvars>>
  /\ reply' = NoReply

\* signUp: bcrypt.hash and prisma.user.create; a failure of the create is
\* caught by the outer catch
SignUpCreate(p) ==
  LET q == procs[p] IN
  /\ q.pc = "create"
  /\ IF StoreCreateError(users, q.row) # "" THEN
       /\ result' = SignUpFailed(q.key, q.email, q.pw, "Failed to create user")
       /\ procs' = [procs EXCEPT ![p] = IdleProc]
       /\ UNCHANGED <<users, nextId>>
     ELSE
       /\ nextId <= MaxUsers
       /\ users' = StoreCreate(users, nextId, q.row)
       /\ nextId' = nextId + 1
       /\ procs' = [procs EXCEPT ![p].pc = "lookup", ![p].uid = nextId]
       /\ result' = NoResult
  /\ UNCHANGED <<now, minted, issues, tokens, serial, mvars>>
  /\ reply' = NoReply

\* UserService.create: the DTO is stored as it is given, the phone as typed
\* and the password as typed; a store error reaches the caller
UserCreate(p, raw, email, pw, rest) ==
  LET row == SpreadLast(SchemaDefaults(email, raw, AsGiven(pw)), rest)
      code == StoreCreateError(users, row)
  IN
  /\ procs[p].pc = "idle"
  /\ IF code # "" THEN
       /\ result' = [Res("create", raw, 0, NullStr, pw, "StoreError", code, "none", "none", NoPayload)
                       EXCEPT !.aux = email]
       /\ UNCHANGED <<users, nextId>>
     ELSE
       /\ nextId <= MaxUsers
       /\ users' = StoreCreate(users, nextId, row)
       /\ nextId' = nextId + 1
       /\ result' = [Res("create", raw, nextId, NullStr, pw, "ok", "", "none", "none", NoPayload)
                       EXCEPT !.aux = email]
  /\ UNCHANGED <<now, minted, issues, tokens, procs, mvars>>
  /\ reply' = NoReply
  /\ Starts

(***************************************************************************)
(* OTP issue requests: every await of the two generate methods is a step   *)
(* of its own.                                                             *)
(***************************************************************************)
\* what the call of request slot q leaves behind when its OTP attempt ends
\* with outcome o
IssueResult(q, o) ==
  IF q.op = "signUp"
    THEN [Res("signUp", q.key, q.uid, SmsCode(q, o), q.pw, SignUpReturn(o).status, SignUpReturn(o).msg,
              o.sms, "none", NoPayload) EXCEPT !.aux = q.email]
    ELSE Res(q.op, q.key, q.uid, SmsCode(q, o), "", o.status, o.msg, o.sms, "none", NoPayload)

\* Math.ceil(this.otpMinIntervalMinutes - minutesSinceLastRequest)
WaitMinutes(row, t) == otpMinIntervalMinutes - (t - row.lastOtpRequestTime)

Decimal(n) == CASE n = 0 -> "0" [] n = 1 -> "1" [] n = 2 -> "2" [] n = 3 -> "3" [] n = 4 -> "4"
                [] n = 5 -> "5" [] n = 6 -> "6" [] n = 7 -> "7" [] n = 8 -> "8" [] n = 9 -> "9"

\* `Please wait ${waitMinutes} minute(s) before requesting another OTP`
WaitMessage(waitMinutes) ==
  "Please wait " \o Decimal(waitMinutes) \o " minute(s) before requesting another OTP"

\* `You have exceeded the maximum number of OTP requests (${this.otpDailyLimit}) for today`
DailyLimitMessage ==
  "You have exceeded the maximum number of OTP requests (" \o Decimal(otpDailyLimit) \o ") for today"

\* variant: the daily counter is reset before the interval check
AfterReadResetFirst(op, row, t) ==
  IF op # "generatePasswordResetOTP" /\ row.isPhoneVerified
    THEN [pc |-> "idle", msg |-> "Phone number is already verified"]
  ELSE IF DateChanged(row, t) THEN [pc |-> "reset", msg |-> ""]
  ELSE IF TooSoon(row, t)
    THEN [pc |-> "idle", msg |-> WaitMessage(WaitMinutes(row, t))]
  ELSE IF OverDailyLimit(row)
    THEN [pc |-> "idle", msg |-> DailyLimitMessage]
  ELSE [pc |-> "write", msg |-> ""]

\* the synchronous checks after the row was read: where the request goes
\* next (generatePhoneVerificationOTP tests isPhoneVerified first)
AfterRead(op, row, t) ==
  IF op # "generatePasswordResetOTP" /\ row.isPhoneVerified
    THEN [pc |-> "idle", msg |-> "Phone number is already verified"]
  ELSE IF TooSoon(row, t)
    THEN [pc |-> "idle", msg |-> WaitMessage(WaitMinutes(row, t))]
  ELSE IF DateChanged(row, t) THEN [pc |-> "reset", msg |-> ""]
  ELSE IF OverDailyLimit(row)
    THEN [pc |-> "idle", msg |-> DailyLimitMessage]
  ELSE [pc |-> "write", msg |-> ""]

\* resendVerificationOTP: its own findUnique by phone and its two checks,
\* before it calls generatePhoneVerificationOTP(user.id)
IssueLookup(p, phone) ==
  LET q == [IdleProc EXCEPT !.op = "resendVerificationOTP", !.key = phone, !.phone = phone,
                            !.uid = UidOf(ByPhone(users, phone))]
  IN
  /\ procs[p].pc = "idle"
  /\ IF ByPhone(users, phone) = {} THEN
       /\ result' = IssueResult(q, Outcome("BadRequest", "User not found", "none"))
       /\ UNCHANGED procs
     ELSE IF users[q.uid].isPhoneVerified THEN
       /\ result' = IssueResult(q, Outcome("BadRequest", "Phone number is already verified", "none"))
       /\ UNCHANGED procs
     ELSE
       /\ procs' = [procs EXCEPT ![p] = [q EXCEPT !.pc = "lookup"]]
       /\ result' = NoResult
  /\ UNCHANGED <<users, nextId, now, minted, issues, tokens, mvars>>
  /\ reply' = NoReply
  /\ Starts


\* the request q after its row was read at time now: the checks, and for a
\* request that passes them with no change of the calendar date the expiry
\* of the new code (Date.now() plus the TTL)
IssueAfterRead(p, q) ==
  LET next == AfterRead(q.op, users[q.uid], now) IN
    IF next.pc = "idle" THEN
      /\ result' = IssueResult(q, Outcome("BadRequest", next.msg, "none"))
      /\ procs' = [procs EXCEPT ![p] = IdleProc]
    ELSE
      /\ procs' = [procs EXCEPT ![p] =
           [q EXCEPT !.pc = next.pc, !.row = Columns(users[q.uid], {"otpRequestCount"}), !.at = now,
                     !.expiry = IF next.pc = "write" THEN OtpExpiry(now) ELSE NullTime]]
      /\ result' = NoResult

\* generatePhoneVerificationOTP: findUnique by id and the checks up to the
\* next store access
VerificationOtpRead(p) ==
  /\ procs[p].pc = "lookup"
  /\ IF ById(users, procs[p].uid) = {} THEN
       /\ result' = IssueResult(procs[p], Outcome("BadRequest", "User not found", "none"))
       /\ procs' = [procs EXCEPT ![p] = IdleProc]
     ELSE IssueAfterRead(p, procs[p])
  /\ UNCHANGED <<users, nextId, now, minted, issues, tokens, serial, mvars>>
  /\ reply' = NoReply

\* generatePasswordResetOTP: findUnique by phone and the checks up to the
\* next store access
ResetOtpRead(p, phone) ==
  LET q == [IdleProc EXCEPT !.op = "generatePasswordResetOTP", !.key = phone, !.phone = phone,
                            !.uid = UidOf(ByPhone(users, phone))]
  IN
  /\ procs[p].pc = "idle"
  /\ IF ByPhone(users, phone) = {} THEN
       /\ result' = IssueResult(q, Outcome("BadRequest", "User not found", "none"))
       /\ UNCHANGED procs
     ELSE IssueAfterRead(p, q)
  /\ UNCHANGED <<users, nextId, now, minted, issues, tokens, mvars>>
  /\ reply' = NoReply
  /\ Starts

\* the update of the "reset daily counter" block, then the daily cap check
\* on the row as it was read and, for a request that passes it, the expiry
\* of the new code, counted from the time of this step
IssueReset(p) ==
  LET q == procs[p] IN
  /\ q.pc = "reset"
  /\ IF StoreUpdateError(users, q.uid, [otpRequestCount |-> 0]) # "" THEN
       /\ result' = IssueResult(q, Uncaught(StoreUpdateError(users, q.uid, [otpRequestCount |-> 0])))
       /\ procs' = [procs EXCEPT ![p] = IdleProc]
       /\ UNCHANGED users
     ELSE
       /\ users' = StoreUpdate(users, q.uid, [otpRequestCount |-> 0])
       /\ IF OverDailyLimit(q.row) THEN
            /\ result' = IssueResult(q, Outcome("BadRequest", DailyLimitMessage, "none"))
            /\ procs' = [procs EXCEPT ![p] = IdleProc]
          ELSE
            /\ procs' = [procs EXCEPT ![p].pc = "write", ![p].expiry = OtpExpiry(now)]
            /\ result' = NoResult
  /\ UNCHANGED <<nextId, now, minted, issues, tokens, serial, mvars>>
  /\ reply' = NoReply

\* variant: a password-reset issue does not count against otpRequestCount
IssueDataResetUncounted(op, row, at, expiry, r) ==
  IF op = "generatePasswordResetOTP"
    THEN [resetPasswordOTP |-> GenerateOtp(r), resetPasswordOTPExpires |-> expiry,
          lastOtpRequestTime |-> at, otpRequestCount |-> row.otpRequestCount]
    ELSE [phoneVerificationOTP |-> GenerateOtp(r), phoneVerificationOTPExpires |-> expiry,
          lastOtpRequestTime |-> at, otpRequestCount |-> row.otpRequestCount + 1]

\* the columns written by the final update of an issue request: the request
\* time is the one of the read, the expiry the one computed before the
\* update was sent, the count the one of the row as it was read, plus one
IssueData(op, row, at, expiry, r) ==
  IF op = "generatePasswordResetOTP"
    THEN [resetPasswordOTP |-> GenerateOtp(r), resetPasswordOTPExpires |-> expiry,
          lastOtpRequestTime |-> at, otpRequestCount |-> row.otpRequestCount + 1]
    ELSE [phoneVerificationOTP |-> GenerateOtp(r), phoneVerificationOTPExpires |-> expiry,
          lastOtpRequestTime |-> at, otpRequestCount |-> row.otpRequestCount + 1]

\* the code the final update of request q stored
WrittenCode(q, data) ==
  IF q.op = "generatePasswordResetOTP" THEN data.resetPasswordOTP ELSE data.phoneVerificationOTP

\* variant: the final update increments the stored counter atomically
IssueWriteAtomicIncrement(p, r) ==
  LET q == procs[p]
      data == IssueData(q.op, q.row, q.at, q.expiry, r)
  IN /\ q.pc = "write"
     /\ q.uid \in DOMAIN users
     /\ users' = StoreUpdate(users, q.uid, [data EXCEPT !.otpRequestCount = users[q.uid].otpRequestCount + 1])
     /\ issues' = CountIssue(issues, q.uid, q.at, q.op, WrittenCode(q, data))
     /\ procs' = [procs EXCEPT ![p].pc = "sms", ![p].otp = WrittenCode(q, data)]
     /\ UNCHANGED <<nextId, now, minted, tokens, serial, mvars>>
     /\ result' = NoResult
     /\ reply' = NoReply

\* variant: the final update leaves the code of a populated slot as it is
IssueWriteKeepsCode(p, r) ==
  LET q == procs[p]
      data == IssueData(q.op, q.row, q.at, q.expiry, r)
      field == IF q.op = "generatePasswordResetOTP" THEN "resetPasswordOTP" ELSE "phoneVerificationOTP"
      kept == IF users[q.uid][field] = NullStr THEN data ELSE [data EXCEPT ![field] = users[q.uid][field]]
  IN /\ q.pc = "write"
     /\ q.uid \in DOMAIN users
     /\ users' = StoreUpdate(users, q.uid, kept)
     /\ issues' = CountIssue(issues, q.uid, q.at, q.op, WrittenCode(q, data))
     /\ procs' = [procs EXCEPT ![p].pc = "sms", ![p].otp = WrittenCode(q, data)]
     /\ UNCHANGED <<nextId, now, minted, tokens, serial, mvars>>
     /\ result' = NoResult
     /\ reply' = NoReply

\* the update that stores the code; r is the value of Math.random(), as a
\* numerator over RandDenominator
IssueWrite(p, r) ==
  LET q == procs[p]
      data == IssueData(q.op, q.row, q.at, q.expiry, r)
  IN /\ q.pc = "write"
     /\ IF StoreUpdateError(users, q.uid, data) # "" THEN
          /\ result' = IssueResult(q, Uncaught(StoreUpdateError(users, q.uid, data)))
          /\ procs' = [procs EXCEPT ![p] = IdleProc]
          /\ UNCHANGED <<users, issues>>
        ELSE
          /\ users' = StoreUpdate(users, q.uid, data)
          /\ issues' = CountIssue(issues, q.uid, q.at, q.op, WrittenCode(q, data))
          /\ procs' = [procs EXCEPT ![p].pc = "sms", ![p].otp = WrittenCode(q, data)]
          /\ result' = NoResult
     /\ UNCHANGED <<nextId, now, minted, tokens, serial, mvars>>
     /\ reply' = NoReply

\* the final update while the store is down: it is rejected, nothing is
\* written and no SMS is attempted
IssueWriteStoreDown(p) ==
  LET q == procs[p] IN
     /\ q.pc = "write"
     /\ result' = IssueResult(q, Outcome("Error", "store update failed", "none"))
     /\ procs' = [procs EXCEPT ![p] = IdleProc]
     /\ UNCHANGED <<users, nextId, now, minted, issues, tokens, serial, mvars>>
     /\ reply' = NoReply

\* the outcome of the SMS dispatch: generatePasswordResetOTP wraps its
\* failure in a BadRequest, generatePhoneVerificationOTP lets it escape
SmsOutcome(op, smsOk) ==
  IF smsOk THEN Outcome("ok", "", "sent")
  ELSE IF op = "generatePasswordResetOTP"
    THEN Outcome("BadRequest", "Failed to send OTP. Please try again later.", "failed")
    ELSE Outcome("Error", "sms dispatch failed", "failed")

\* variant: a failed SMS dispatch undoes the update
IssueSmsRollsBack(p, smsOk) ==
  LET q == procs[p]
      undone == IF q.op = "generatePasswordResetOTP"
                  THEN [resetPasswordOTP |-> NullStr, resetPasswordOTPExpires |-> NullTime,
                        otpRequestCount |-> q.row.otpRequestCount]
                  ELSE [phoneVerificationOTP |-> NullStr, phoneVerificationOTPExpires |-> NullTime,
                        otpRequestCount |-> q.row.otpRequestCount]
  IN /\ q.pc = "sms"
     /\ users' = IF smsOk \/ q.uid \notin DOMAIN users THEN users
                 ELSE StoreUpdate(users, q.uid, undone)
     /\ result' = IssueResult(q, SmsOutcome(q.op, smsOk))
     /\ procs' = [procs EXCEPT ![p] = IdleProc]
     /\ UNCHANGED <<nextId, now, minted, issues, tokens, serial, mvars>>
     /\ reply' = NoReply

\* the SMS with the code was sent or has failed, and the call returns
IssueSms(p, smsOk) ==
  LET q == procs[p] IN
     /\ q.pc = "sms"
     /\ result' = IssueResult(q, SmsOutcome(q.op, smsOk))
     /\ procs' = [procs EXCEPT ![p] = IdleProc]
     /\ UNCHANGED <<users, nextId, now, minted, issues, tokens, serial, mvars>>
     /\ reply' = NoReply

(***************************************************************************)
(* AuthService.logIn: the findUnique is one step; the resolution of        *)
(* bcrypt.compare with the checks on the row that was read, the signing of *)
(* the token and the return is another.                                    *)
(***************************************************************************)
\* the claims of the session token signed by logIn
JwtPayload(id, user, t) ==
  [sub |-> id, email |-> user.email, phone |-> user.phone, role |-> user.role,
   iat |-> t, exp |-> t + JwtExpiryMinutes]

\* variant: logIn without the phone-verification check
LogInOutcomeNoVerifiedCheck(found, user, pw) ==
  IF ~found THEN [status |-> "Unauthorized", msg |-> "Invalid credentials"]
  ELSE IF ~BcryptCompare(pw, user.password) THEN [status |-> "Unauthorized", msg |-> "Invalid credentials"]
  ELSE IF ~user.isActive THEN [status |-> "Forbidden", msg |-> "Your account has been deactivated"]
  ELSE [status |-> "ok", msg |-> ""]

\* variant: logIn checking isActive before the password
LogInOutcomeActiveFirst(found, user, pw) ==
  IF ~found THEN [status |-> "Unauthorized", msg |-> "Invalid credentials"]
  ELSE IF ~user.isActive THEN [status |-> "Forbidden", msg |-> "Your account has been deactivated"]
  ELSE IF ~BcryptCompare(pw, user.password) THEN [status |-> "Unauthorized", msg |-> "Invalid credentials"]
  ELSE IF ~user.isPhoneVerified
    THEN [status |-> "Forbidden", msg |-> "Please verify your phone number before logging in"]
  ELSE [status |-> "ok", msg |-> ""]

\* variant: an unregistered phone is reported as such
LogInOutcomeRevealsAbsent(found, user, pw) ==
  IF ~found THEN [status |-> "BadRequest", msg |-> "User not found"]
  ELSE IF ~BcryptCompare(pw, user.password) THEN [status |-> "Unauthorized", msg |-> "Invalid credentials"]
  ELSE IF ~user.isActive THEN [status |-> "Forbidden", msg |-> "Your account has been deactivated"]
  ELSE IF ~user.isPhoneVerified
    THEN [status |-> "Forbidden", msg |-> "Please verify your phone number before logging in"]
  ELSE [status |-> "ok", msg |-> ""]

\* the outcome of AuthService.logIn: found tells whether findUnique returned
\* a row, user is that row
LogInOutcome(found, user, pw) ==
  IF ~found THEN [status |-> "Unauthorized", msg |-> "Invalid credentials"]
  ELSE IF ~BcryptCompare(pw, user.password) THEN [status |-> "Unauthorized", msg |-> "Invalid credentials"]
  ELSE IF ~user.isActive THEN [status |-> "Forbidden", msg |-> "Your account has been deactivated"]
  ELSE IF ~user.isPhoneVerified
    THEN [status |-> "Forbidden", msg |-> "Please verify your phone number before logging in"]
  ELSE [status |-> "ok", msg |-> ""]

\* logIn: findUnique by phone; an unregistered phone is rejected at once,
\* for a registered one bcrypt.compare is awaited
LogIn(p, phone, pw) ==
  LET o == LogInOutcome(FALSE, NoRow, pw) IN
  /\ procs[p].pc = "idle"
  /\ IF ByPhone(users, phone) = {} THEN
       /\ result' = Res("logIn", phone, 0, NullStr, pw, o.status, o.msg, "none", "none", NoPayload)
       /\ UNCHANGED procs
     ELSE
       /\ procs' = [procs EXCEPT ![p] =
            [IdleProc EXCEPT !.pc = "compare", !.op = "logIn", !.key = phone, !.phone = phone,
                             !.uid = Pick(ByPhone(users, phone)),
                             !.row = Columns(users[Pick(ByPhone(users, phone))],
                                             {"password", "isActive", "isPhoneVerified", "email", "phone", "role"}),
                             !.pw = pw]]
       /\ result' = NoResult
  /\ UNCHANGED <<users, nextId, now, minted, issues, tokens, mvars>>
  /\ reply' = NoReply
  /\ Starts

\* logIn: bcrypt.compare has resolved; the checks on the row that was read,
\* and the token, signed at the time of this step
LogInCompare(p) ==
  LET q == procs[p]
      o == LogInOutcome(TRUE, q.row, q.pw)
      payload == IF o.status = "ok" THEN JwtPayload(q.uid, q.row, now) ELSE NoPayload
  IN /\ q.pc = "compare"
     /\ result' = Res("logIn", q.key, q.uid, NullStr, q.pw, o.status, o.msg, "none", "none", payload)
     /\ tokens' = IF o.status = "ok" THEN tokens \cup {payload} ELSE tokens
     /\ procs' = [procs EXCEPT ![p] = IdleProc]
     /\ UNCHANGED <<users, nextId, now, minted, issues, serial, mvars>>
     /\ reply' = NoReply

(***************************************************************************)
(* Consume requests (verifyPhone, resetPasswordWithOTP, verifyEmail): the  *)
(* findUnique with the checks that follow it is one step, the update of a  *)
(* request that passed them is another.                                    *)
(***************************************************************************)
\* variant: the expiry instant itself already counts as expired
OtpExpiredInclusive(expires, t) == t >= expires

\* new Date() > user.<slot>Expires
OtpExpired(expires, t) == t > expires

\* variant: verifyPhone without the already-verified check
VerifyPhoneOutcomeReverifies(us, phone, otp, t) ==
  IF ByPhone(us, phone) = {} THEN "User not found"
  ELSE LET user == us[Pick(ByPhone(us, phone))] IN
    IF user.phoneVerificationOTP = NullStr \/ user.phoneVerificationOTPExpires = NullTime
      THEN "No OTP found. Please request a new one"
    ELSE IF OtpExpired(user.phoneVerificationOTPExpires, t)
      THEN "OTP has expired. Please request a new one"
    ELSE IF user.phoneVerificationOTP # otp THEN "Invalid OTP"
    ELSE ""

\* variant: verifyPhone without the expiry check
VerifyPhoneOutcomeSkipsExpiry(us, phone, otp, t) ==
  IF ByPhone(us, phone) = {} THEN "User not found"
  ELSE LET user == us[Pick(ByPhone(us, phone))] IN
    IF user.isPhoneVerified THEN "Phone number is already verified"
    ELSE IF user.phoneVerificationOTP = NullStr \/ user.phoneVerificationOTPExpires = NullTime
      THEN "No OTP found. Please request a new one"
    ELSE IF user.phoneVerificationOTP # otp THEN "Invalid OTP"
    ELSE ""

\* the outcome of AuthService.verifyPhone on a row (absent: id 0)
VerifyPhoneOutcome(us, phone, otp, t) ==
  IF ByPhone(us, phone) = {} THEN "User not found"
  ELSE LET user == us[Pick(ByPhone(us, phone))] IN
    IF user.isPhoneVerified THEN "Phone number is already verified"
    ELSE IF user.phoneVerificationOTP = NullStr \/ user.phoneVerificationOTPExpires = NullTime
      THEN "No OTP found. Please request a new one"
    ELSE IF OtpExpired(user.phoneVerificationOTPExpires, t)
      THEN "OTP has expired. Please request a new one"
    ELSE IF user.phoneVerificationOTP # otp THEN "Invalid OTP"
    ELSE ""

\* the columns written by a successful verifyPhone
VerifyPhoneData == [isPhoneVerified |-> TRUE, phoneVerificationOTP |-> NullStr,
                    phoneVerificationOTPExpires |-> NullTime]

\* variant: resetPasswordWithOTP also accepts the code of the phone slot
ResetPasswordWithOTPOutcomeAnySlot(us, phone, otp, t) ==
  IF ByPhone(us, phone) = {} THEN "User not found"
  ELSE LET user == us[Pick(ByPhone(us, phone))] IN
    IF user.resetPasswordOTP = NullStr \/ user.resetPasswordOTPExpires = NullTime
      THEN "No OTP found. Please request a new one"
    ELSE IF OtpExpired(user.resetPasswordOTPExpires, t)
      THEN "OTP has expired. Please request a new one"
    ELSE IF user.resetPasswordOTP # otp /\ user.phoneVerificationOTP # otp THEN "Invalid OTP"
    ELSE ""

\* the outcome of AuthService.resetPasswordWithOTP
ResetPasswordWithOTPOutcome(us, phone, otp, t) ==
  IF ByPhone(us, phone) = {} THEN "User not found"
  ELSE LET user == us[Pick(ByPhone(us, phone))] IN
    IF user.resetPasswordOTP = NullStr \/ user.resetPasswordOTPExpires = NullTime
      THEN "No OTP found. Please request a new one"
    ELSE IF OtpExpired(user.resetPasswordOTPExpires, t)
      THEN "OTP has expired. Please request a new one"
    ELSE IF user.resetPasswordOTP # otp THEN "Invalid OTP"
    ELSE ""

\* variant: the reset slot is cleared but the password is not replaced
ResetPasswordWithOTPDataKeepsPassword(newPassword) ==
  [resetPasswordOTP |-> NullStr, resetPasswordOTPExpires |-> NullTime]

\* variant: the password is updated but the reset slot is not cleared
ResetPasswordWithOTPDataKeepsSlot(newPassword) == [password |-> BcryptHash(newPassword)]

\* the columns written by a successful resetPasswordWithOTP
ResetPasswordWithOTPData(newPassword) ==
  [password |-> BcryptHash(newPassword), resetPasswordOTP |-> NullStr,
   resetPasswordOTPExpires |-> NullTime]

\* the outcome of AuthService.verifyEmail
VerifyEmailOutcome(us, email, otp, t) ==
  IF ByEmail(us, email) = {} THEN "User not found"
  ELSE LET user == us[Pick(ByEmail(us, email))] IN
    IF user.isEmailVerified THEN "Email is already verified"
    ELSE IF user.emailVerificationOTP = NullStr \/ user.emailVerificationOTPExpires = NullTime
      THEN "No OTP found. Please request a new one"
    ELSE IF OtpExpired(user.emailVerificationOTPExpires, t)
      THEN "OTP has expired. Please request a new one"
    ELSE IF user.emailVerificationOTP # otp THEN "Invalid OTP"
    ELSE ""

\* the columns written by a successful verifyEmail
VerifyEmailData == [isEmailVerified |-> TRUE, emailVerificationOTP |-> NullStr,
                    emailVerificationOTPExpires |-> NullTime]

ConsumeOps == {"verifyPhone", "resetPasswordWithOTP", "verifyEmail"}

\* the row a consume operation finds for its key (0: none)
ConsumeUid(op, us, key) == IF op = "verifyEmail" THEN UidOf(ByEmail(us, key)) ELSE UidOf(ByPhone(us, key))

\* the checks of a consume operation on the store as it is read
ConsumeOutcome(op, us, key, otp, t) ==
  IF op = "verifyPhone" THEN VerifyPhoneOutcome(us, key, otp, t)
  ELSE IF op = "verifyEmail" THEN VerifyEmailOutcome(us, key, otp, t)
  ELSE ResetPasswordWithOTPOutcome(us, key, otp, t)

\* the columns written by the update of a consume operation
ConsumeData(op, pw) ==
  IF op = "verifyPhone" THEN VerifyPhoneData
  ELSE IF op = "verifyEmail" THEN VerifyEmailData
  ELSE ResetPasswordWithOTPData(pw)

\* the expiry of the slot a consume operation reads
SlotExpires(op, u) ==
  IF op = "verifyPhone" THEN u.phoneVerificationOTPExpires
  ELSE IF op = "verifyEmail" THEN u.emailVerificationOTPExpires
  ELSE u.resetPasswordOTPExpires

\* variant: a wrong guess burns the code of the slot
ConsumeReadBurnsOnMismatch(p, op, key, otp, newPassword) ==
  LET m == ConsumeOutcome(op, users, key, otp, now)
      id == ConsumeUid(op, users, key)
      pw == IF op = "resetPasswordWithOTP" THEN newPassword ELSE ""
  IN /\ procs[p].pc = "idle"
     /\ IF m # "" THEN
          /\ result' = [Res(op, key, id, otp, pw, "BadRequest", m, "none", "none", NoPayload)
                          EXCEPT !.expires = IF id = 0 THEN NullTime ELSE SlotExpires(op, users[id])]
          /\ users' = IF m = "Invalid OTP"
                        THEN StoreUpdate(users, id, [f \in DOMAIN ConsumeData(op, pw) \ {"password", "isPhoneVerified", "isEmailVerified"} |->
                                                       ConsumeData(op, pw)[f]])
                        ELSE users
          /\ UNCHANGED procs
        ELSE
          /\ procs' = [procs EXCEPT ![p] = [IdleProc EXCEPT !.pc = "consume", !.op = op, !.key = key,
                                                            !.uid = id, !.at = now,
                                                            !.expiry = SlotExpires(op, users[id]),
                                                            !.otp = otp, !.pw = pw]]
          /\ UNCHANGED <<users>>
          /\ result' = NoResult
     /\ UNCHANGED <<nextId, now, minted, issues, tokens, mvars>>
     /\ reply' = NoReply
     /\ Starts

\* findUnique by phone (verifyEmail: by email) and the checks on the row that
\* was read
ConsumeRead(p, op, key, otp, newPassword) ==
  LET m == ConsumeOutcome(op, users, key, otp, now)
      id == ConsumeUid(op, users, key)
      pw == IF op = "resetPasswordWithOTP" THEN newPassword ELSE ""
  IN /\ procs[p].pc = "idle"
     /\ IF m # "" THEN
          /\ result' = [Res(op, key, id, otp, pw, "BadRequest", m, "none", "none", NoPayload)
                          EXCEPT !.expires = IF id = 0 THEN NullTime ELSE SlotExpires(op, users[id])]
          /\ UNCHANGED procs
        ELSE
          /\ procs' = [procs EXCEPT ![p] = [IdleProc EXCEPT !.pc = "consume", !.op = op, !.key = key,
                                                            !.uid = id, !.at = now,
                                                            !.expiry = SlotExpires(op, users[id]),
                                                            !.otp = otp, !.pw = pw]]
          /\ result' = NoResult
     /\ UNCHANGED <<users, nextId, now, minted, issues, tokens, mvars>>
     /\ reply' = NoReply
     /\ Starts

\* bcrypt.hash (resetPasswordWithOTP) and the update of a consume request
\* whose checks passed
ConsumeWrite(p) ==
  LET q == procs[p]
      code == StoreUpdateError(users, q.uid, ConsumeData(q.op, q.pw))
  IN
    /\ q.pc = "consume"
    /\ IF code # "" THEN
         /\ result' = [Res(q.op, q.key, q.uid, q.otp, q.pw, "StoreError", code, "none", "none", NoPayload)
                         EXCEPT !.expires = q.expiry]
         /\ UNCHANGED users
       ELSE
         /\ users' = StoreUpdate(users, q.uid, ConsumeData(q.op, q.pw))
         /\ result' = [Res(q.op, q.key, q.uid, q.otp, q.pw, "ok", "", "none", "none", NoPayload)
                         EXCEPT !.expires = q.expiry]
    /\ procs' = [procs EXCEPT ![p] = IdleProc]
    /\ UNCHANGED <<nextId, now, minted, issues, tokens, serial, mvars>>
    /\ reply' = NoReply

(***************************************************************************)
(* The reset token: generateResetToken and resetPassword                   *)
(***************************************************************************)
\* variant: an unknown email is reported like in the other handlers
GenerateResetTokenReadRevealing(p, email) ==
  /\ procs[p].pc = "idle"
  /\ IF ByEmail(users, email) = {} THEN
       /\ result' = Res("generateResetToken", email, 0, NullStr, "", "BadRequest", "User not found",
                        "none", "none", NoPayload)
       /\ UNCHANGED <<procs, minted>>
     ELSE
       /\ minted < MaxTokens
       /\ minted' = minted + 1
       /\ procs' = [procs EXCEPT ![p] =
            [IdleProc EXCEPT !.pc = "token", !.op = "generateResetToken", !.key = email, !.email = email,
                             !.uid = Pick(ByEmail(users, email)), !.at = now,
                             !.tok = HexTokens[minted + 1]]]
       /\ result' = NoResult
  /\ UNCHANGED <<users, nextId, now, issues, tokens, mvars>>
  /\ reply' = NoReply
  /\ Starts

\* generateResetToken: findUnique by email; an unknown email returns in
\* silence, else crypto.randomBytes produces the token and the clock is read
\* for its expiry
GenerateResetTokenRead(p, email) ==
  /\ procs[p].pc = "idle"
  /\ IF ByEmail(users, email) = {} THEN
       /\ result' = Res("generateResetToken", email, 0, NullStr, "", "ok", "", "none", "none", NoPayload)
       /\ UNCHANGED <<procs, minted>>
     ELSE
       /\ minted < MaxTokens
       /\ minted' = minted + 1
       /\ procs' = [procs EXCEPT ![p] =
            [IdleProc EXCEPT !.pc = "token", !.op = "generateResetToken", !.key = email, !.email = email,
                             !.uid = Pick(ByEmail(users, email)), !.at = now,
                             !.tok = HexTokens[minted + 1]]]
       /\ result' = NoResult
  /\ UNCHANGED <<users, nextId, now, issues, tokens, mvars>>
  /\ reply' = NoReply
  /\ Starts

\* variant: a reset token counts as an OTP request
ResetTokenDataCounted(tok, t) ==
  [resetPasswordToken |-> tok, resetPasswordExpires |-> t + ResetTokenMinutes,
   lastOtpRequestTime |-> t]

\* the columns written by generateResetToken; tok is the hex string of
\* crypto.randomBytes
ResetTokenData(tok, t) ==
  [resetPasswordToken |-> tok, resetPasswordExpires |-> t + ResetTokenMinutes]

\* generateResetToken: the update with the token and the expiry computed
\* after the read
GenerateResetTokenWrite(p) ==
  LET q == procs[p]
      data == ResetTokenData(q.tok, q.at)
      code == StoreUpdateError(users, q.uid, data)
  IN
  /\ q.pc = "token"
  /\ IF code # "" THEN
       /\ result' = [Res("generateResetToken", q.key, q.uid, NullStr, "", "StoreError", code,
                         "none", "none", NoPayload) EXCEPT !.aux = q.tok]
       /\ procs' = [procs EXCEPT ![p] = IdleProc]
       /\ UNCHANGED users
     ELSE
       /\ users' = StoreUpdate(users, q.uid, data)
       /\ procs' = [procs EXCEPT ![p].pc = "mail"]
       /\ result' = NoResult
  /\ UNCHANGED <<nextId, now, minted, issues, tokens, serial, mvars>>
  /\ reply' = NoReply

\* generateResetToken: the mail with the token was sent or has failed, and
\* the call returns
GenerateResetTokenMail(p, mailOk) ==
  LET q == procs[p] IN
  /\ q.pc = "mail"
  /\ result' = [Res("generateResetToken", q.key, q.uid, NullStr, "",
                    IF mailOk THEN "ok" ELSE "Error", IF mailOk THEN "" ELSE "mail dispatch failed",
                    "none", IF mailOk THEN "sent" ELSE "failed", NoPayload) EXCEPT !.aux = q.tok]
  /\ procs' = [procs EXCEPT ![p] = IdleProc]
  /\ UNCHANGED <<users, nextId, now, minted, issues, tokens, serial, mvars>>
  /\ reply' = NoReply

\* variant: a token is still accepted at the instant of its expiry
ByResetTokenInclusive(us, token, t) ==
  {i \in DOMAIN us : /\ us[i].resetPasswordToken # NullToken
                     /\ us[i].resetPasswordToken = token
                     /\ us[i].resetPasswordExpires # NullTime
                     /\ us[i].resetPasswordExpires >= t}

\* prisma.user.findFirst({ where: { resetPasswordToken: token,
\*                                  resetPasswordExpires: { gt: new Date() } } })
ByResetToken(us, token, t) ==
  {i \in DOMAIN us : /\ us[i].resetPasswordToken # NullToken
                     /\ us[i].resetPasswordToken = token
                     /\ us[i].resetPasswordExpires # NullTime
                     /\ us[i].resetPasswordExpires > t}

\* resetPassword: the findFirst query is sent; its where clause carries the
\* value new Date() has at this moment
ResetPasswordQuery(p, token, newPassword) ==
  /\ procs[p].pc = "idle"
  /\ procs' = [procs EXCEPT ![p] =
       [IdleProc EXCEPT !.pc = "findFirst", !.op = "resetPassword", !.key = token,
                        !.pw = newPassword, !.at = now]]
  /\ result' = NoResult
  /\ UNCHANGED <<users, nextId, now, minted, issues, tokens, mvars>>
  /\ reply' = NoReply
  /\ Starts

\* resetPassword: the answer of findFirst on the store as it is now, for the
\* token and the time of the query
ResetPasswordRead(p) ==
  LET q == procs[p]
      found == ByResetToken(users, q.key, q.at)
  IN
  /\ q.pc = "findFirst"
  /\ IF found = {} THEN
       /\ result' = Res("resetPassword", q.key, 0, NullStr, q.pw, "BadRequest",
                        "Invalid or expired reset token", "none", "none", NoPayload)
       /\ procs' = [procs EXCEPT ![p] = IdleProc]
     ELSE
       /\ procs' = [procs EXCEPT ![p].pc = "resetPassword", ![p].uid = Pick(found)]
       /\ result' = NoResult
  /\ UNCHANGED <<users, nextId, now, minted, issues, tokens, serial, mvars>>
  /\ reply' = NoReply

\* variant: resetPassword clears the token and keeps its expiry
ResetPasswordDataKeepsExpiry(newPassword) ==
  [password |-> BcryptHash(newPassword), resetPasswordToken |-> NullToken]

\* variant: resetPassword replaces the password and keeps the token
ResetPasswordDataKeepsToken(newPassword) == [password |-> BcryptHash(newPassword)]

\* the columns written by resetPassword
ResetPasswordData(newPassword) ==
  [password |-> BcryptHash(newPassword), resetPasswordToken |-> NullToken,
   resetPasswordExpires |-> NullTime]

\* resetPassword: bcrypt.hash and the update
ResetPasswordWrite(p) ==
  LET q == procs[p]
      code == StoreUpdateError(users, q.uid, ResetPasswordData(q.pw))
  IN
  /\ q.pc = "resetPassword"
  /\ IF code # "" THEN
       /\ result' = Res("resetPassword", q.key, q.uid, NullStr, q.pw, "StoreError", code,
                        "none", "none", NoPayload)
       /\ UNCHANGED users
     ELSE
       /\ users' = StoreUpdate(users, q.uid, ResetPasswordData(q.pw))
       /\ result' = Res("resetPassword", q.key, q.uid, NullStr, q.pw, "ok", "", "none", "none", NoPayload)
  /\ procs' = [procs EXCEPT ![p] = IdleProc]
  /\ UNCHANGED <<nextId, now, minted, issues, tokens, serial, mvars>>
  /\ reply' = NoReply

(***************************************************************************)
(* JwtStrategy.validate                                                    *)
(***************************************************************************)
\* variant: validate does not look at isActive
ValidateOutcomeIgnoresActive(us, payload) ==
  IF ById(us, payload.sub) = {} THEN [status |-> "Unauthorized", msg |-> "Login first to access this endpoint."]
  ELSE [status |-> "ok", msg |-> ""]

\* the outcome of JwtStrategy.validate(payload) on a store
ValidateOutcome(us, payload) ==
  LET userId == payload.sub IN
  IF ById(us, userId) = {} THEN [status |-> "Unauthorized", msg |-> "Login first to access this endpoint."]
  ELSE IF ~us[userId].isActive THEN [status |-> "Unauthorized", msg |-> "User account is inactive"]
  ELSE [status |-> "ok", msg |-> ""]

\* variant: the attached user is built from the claims of the token
AttachedUserFromClaims(us, payload) == [payload EXCEPT !.iat = NullTime, !.exp = NullTime]

\* the user JwtStrategy.validate returns for an accepted token: the columns
\* selected from the row read by id (sub holds the id; isActive is TRUE in
\* every returned user)
AttachedUser(us, payload) ==
  LET user == us[payload.sub] IN
    [sub |-> payload.sub, email |-> user.email, phone |-> user.phone, role |-> user.role,
     iat |-> NullTime, exp |-> NullTime]

\* JwtStrategy.validate, called by passport for a signed token that is
\* unexpired at that moment: it sends findUnique for the id of the token
Validate(p, payload) ==
  /\ procs[p].pc = "idle"
  /\ now < payload.exp
  /\ procs' = [procs EXCEPT ![p] = [IdleProc EXCEPT !.pc = "validate", !.op = "validate",
                                                     !.uid = payload.sub, !.payload = payload]]
  /\ result' = NoResult
  /\ UNCHANGED <<users, nextId, now, minted, issues, tokens, mvars>>
  /\ reply' = NoReply
  /\ Starts

\* the store answers findUnique, whatever the clock shows by then: validate
\* throws or returns the user read
ValidateRead(p) ==
  LET q == procs[p] IN
  /\ q.pc = "validate"
  /\ LET o == ValidateOutcome(users, q.payload) IN
       result' = Res("validate", "", q.uid, NullStr, "", o.status, o.msg, "none", "none",
                     IF o.status = "ok" THEN AttachedUser(users, q.payload) ELSE NoPayload)
  /\ procs' = [procs EXCEPT ![p] = IdleProc]
  /\ UNCHANGED <<users, nextId, now, minted, issues, tokens, serial, mvars>>
  /\ reply' = NoReply

(***************************************************************************)
(* UserService.update and UserService.remove: one store call each          *)
(***************************************************************************)
UpdateDtos == {[isActive |-> FALSE], [isActive |-> TRUE]}
EmailDtos == {[email |-> e] : e \in Emails}
RoleDtos == {[role |-> "ADMIN"], [role |-> "USER"]}

\* variant: every store error is reported as NotFound
TranslateStoreErrorAny(code) == [status |-> "NotFound", msg |-> "User with ID ${id} not found"]

\* the catch block of UserService.update and UserService.remove (the message
\* is the template, the id is in result.uid)
TranslateStoreError(code) ==
  IF code = "P2025" THEN [status |-> "NotFound", msg |-> "User with ID ${id} not found"]
                    ELSE [status |-> "StoreError", msg |-> code]

\* UserService.update
UserUpdate(p, id, dto) ==
  LET code == StoreUpdateError(users, id, dto) IN
  /\ procs[p].pc = "idle"
  /\ IF code # "" THEN
       /\ result' = Res("update", "", id, NullStr, "", TranslateStoreError(code).status,
                        TranslateStoreError(code).msg, "none", "none", NoPayload)
       /\ UNCHANGED users
     ELSE
       /\ users' = StoreUpdate(users, id, dto)
       /\ result' = Res("update", "", id, NullStr, "", "ok", "", "none", "none", NoPayload)
  /\ UNCHANGED <<nextId, now, minted, issues, tokens, procs, mvars>>
  /\ reply' = NoReply
  /\ Starts

\* UserService.remove: one delete; the row of userMarketingPreference that
\* refers to the user goes with it (onDelete: Cascade)
UserRemove(p, id) ==
  /\ procs[p].pc = "idle"
  /\ IF ById(users, id) = {} THEN
       /\ result' = Res("remove", "", id, NullStr, "", TranslateStoreError("P2025").status,
                        TranslateStoreError("P2025").msg, "none", "none", NoPayload)
       /\ UNCHANGED <<users, preferences>>
     ELSE
       /\ users' = StoreDelete(users, id)
       /\ preferences' = StoreDelete(preferences, id)
       /\ result' = Res("remove", "", id, NullStr, "", "ok", "User deleted successfully", "none", "none",
                        NoPayload)
  /\ UNCHANGED <<nextId, now, minted, issues, tokens, procs, notifications, outbox, senders>>
  /\ reply' = NoReply
  /\ Starts

(***************************************************************************)
(* NotificationService: marketing notifications and preferences.  Every    *)
(* store access and every sendMarketingEmail is a step of its own.         *)
(***************************************************************************)
avars == <<users, nextId, issues, tokens, procs>>

NotificationIds == {1}
LookupNotificationIds == {1, 2}
Recipients == {1, 2}
RecipientEmail(u) == IF u = 1 THEN "a@x.io" ELSE "b@x.io"
ScheduleDates == {StartTime + 60}

\* createMarketingNotification inputs: timing defaults to IMMEDIATE in the dto
ImmediateDtos == {[category |-> "PROMOTIONAL", timing |-> "IMMEDIATE", scheduledDate |-> NullTime]}
CreateDtos ==
  ImmediateDtos \cup {[category |-> "PROMOTIONAL", timing |-> "SCHEDULED", scheduledDate |-> StartTime + 30],
                      [category |-> "EVENTS", timing |-> "SCHEDULED", scheduledDate |-> NullTime]}

PreferenceDtos == {<<>>, [preferEmail |-> FALSE]}

\* a row of marketingNotification: the dto and the schema defaults
NewNotification(dto) ==
  [category |-> dto.category, timing |-> dto.timing, scheduledDate |-> dto.scheduledDate,
   sent |-> FALSE, sentAt |-> NullTime, successCount |-> 0, failureCount |-> 0]

\* a row of userMarketingPreference with every subscription on
DefaultPreference(email) ==
  [email |-> email, subscribedToPromotional |-> TRUE, subscribedToNewsletter |-> TRUE,
   subscribedToProductUpdates |-> TRUE, subscribedToEvents |-> TRUE,
   preferEmail |-> TRUE, preferSMS |-> FALSE, preferPush |-> FALSE]

\* NotificationService.getCategorySubscriptionField
GetCategorySubscriptionField(category) ==
  CASE category = "PROMOTIONAL" -> "subscribedToPromotional"
    [] category = "NEWSLETTER" -> "subscribedToNewsletter"
    [] category = "PRODUCT_UPDATES" -> "subscribedToProductUpdates"
    [] category = "EVENTS" -> "subscribedToEvents"
    [] OTHER -> "subscribedToPromotional"

\* variant: preferEmail is not part of the where clause
OptedInUsersAnyChannel(prefs, category) ==
  {u \in DOMAIN prefs : prefs[u][GetCategorySubscriptionField(category)]}

\* userMarketingPreference.findMany({ where: { [categoryField]: true, preferEmail: true } })
OptedInUsers(prefs, category) ==
  {u \in DOMAIN prefs : prefs[u][GetCategorySubscriptionField(category)] /\ prefs[u].preferEmail}

\* the guards of sendMarketingNotification on the notification as it is read
SendGuard(ns, id, t) ==
  IF id \notin DOMAIN ns THEN [status |-> "NotFound", msg |-> "Marketing notification not found"]
  ELSE IF ns[id].sent THEN [status |-> "BadRequest", msg |-> "Notification has already been sent"]
  ELSE IF ns[id].timing = "SCHEDULED" /\ ns[id].scheduledDate # NullTime /\ t < ns[id].scheduledDate
    THEN [status |-> "BadRequest", msg |-> "Scheduled notification time has not arrived yet"]
  ELSE [status |-> "ok", msg |-> ""]

\* the sendMarketingEmail calls made so far
Attempts(box) ==
  LET RECURSIVE Sum(_)
      Sum(K) == IF K = {} THEN 0 ELSE LET k == CHOOSE x \in K : TRUE IN box[k].attempts + Sum(K \ {k})
  IN Sum(DOMAIN box)

\* the outbox after one sendMarketingEmail call for notification id to
\* recipient u: attempts and accepted emails are counted, and the call is
\* numbered among all calls made so far
Mailed(box, id, u, ok) ==
  LET key == <<id, u>>
      old == IF key \in DOMAIN box THEN box[key] ELSE [attempts |-> 0, delivered |-> 0, last |-> 0]
      new == [attempts |-> old.attempts + 1, delivered |-> old.delivered + (IF ok THEN 1 ELSE 0),
              last |-> Attempts(box) + 1]
  IN [k \in DOMAIN box \cup {key} |-> IF k = key THEN new ELSE box[k]]

\* the orders in which findMany can return the rows of the set S
Orderings(S) ==
  {order \in [1..Cardinality(S) -> S] : \A j, k \in 1..Cardinality(S) : order[j] = order[k] => j = k}

\* the columns written by the final update of sendMarketingNotification
SentData(t, successCount, failureCount) ==
  [sent |-> TRUE, sentAt |-> t, successCount |-> successCount, failureCount |-> failureCount]

\* NotificationService.createMarketingNotification: one create
CreateMarketingNotification(p, id, dto) ==
  /\ senders[p].pc = "idle"
  /\ id \notin DOMAIN notifications
  /\ notifications' = StoreCreate(notifications, id, NewNotification(dto))
  /\ reply' = Reply("createMarketingNotification", id, "ok", "", NoStats)
  /\ UNCHANGED <<avars, now, minted, preferences, outbox, senders>>
  /\ result' = NoResult
  /\ Starts

\* getUserMarketingPreference: findUnique by userId
GetUserMarketingPreferenceRead(p, userId) ==
  /\ senders[p].pc = "idle"
  /\ IF userId \in DOMAIN preferences THEN
       /\ reply' = Reply("getUserMarketingPreference", userId, "ok", "", NoStats)
       /\ UNCHANGED senders
     ELSE
       /\ senders' = [senders EXCEPT ![p] =
            [IdleSender EXCEPT !.pc = "prefCreate", !.op = "getUserMarketingPreference", !.id = userId,
                               !.data = DefaultPreference("")]]
       /\ reply' = NoReply
  /\ UNCHANGED <<avars, now, minted, notifications, preferences, outbox>>
  /\ result' = NoResult
  /\ Starts

\* the data of the create of updateMarketingPreference: the email of the
\* call, and for each of the seven flags updateDto.flag ?? its default
CreatePreferenceData(email, updateDto) ==
  [f \in DOMAIN DefaultPreference(email) |->
     IF f # "email" /\ f \in DOMAIN updateDto THEN updateDto[f] ELSE DefaultPreference(email)[f]]

\* the data of the update of updateMarketingPreference: { email, ...updateDto }
UpdatePreferenceData(email, updateDto) ==
  [f \in {"email"} \cup DOMAIN updateDto |-> IF f \in DOMAIN updateDto THEN updateDto[f] ELSE email]

\* updateMarketingPreference: findUnique by userId
UpdateMarketingPreferenceRead(p, userId, email, updateDto) ==
  /\ senders[p].pc = "idle"
  /\ senders' = [senders EXCEPT ![p] =
       IF userId \notin DOMAIN preferences
         THEN [IdleSender EXCEPT !.pc = "prefCreate", !.op = "updateMarketingPreference", !.id = userId,
                                 !.data = CreatePreferenceData(email, updateDto)]
         ELSE [IdleSender EXCEPT !.pc = "prefUpdate", !.op = "updateMarketingPreference", !.id = userId,
                                 !.data = UpdatePreferenceData(email, updateDto)]]
  /\ UNCHANGED <<avars, now, minted, notifications, preferences, outbox>>
  /\ reply' = NoReply
  /\ result' = NoResult
  /\ Starts

\* the error code with which prisma.userMarketingPreference.create rejects
\* a row: P2002 when a row of the user exists (userId is unique), P2003
\* when userId refers to no user (the relation to User)
PreferenceCreateError(prefs, us, userId) ==
  IF userId \in DOMAIN prefs THEN "P2002"
  ELSE IF userId \notin DOMAIN us THEN "P2003"
  ELSE ""

\* userMarketingPreference.create of either preference method
PreferenceCreate(p) ==
  LET q == senders[p] IN
  /\ q.pc = "prefCreate"
  /\ IF PreferenceCreateError(preferences, users, q.id) # "" THEN
       /\ reply' = Reply(q.op, q.id, "StoreError", PreferenceCreateError(preferences, users, q.id), NoStats)
       /\ UNCHANGED preferences
     ELSE
       /\ preferences' = StoreCreate(preferences, q.id, q.data)
       /\ reply' = Reply(q.op, q.id, "ok", "", NoStats)
  /\ senders' = [senders EXCEPT ![p] = IdleSender]
  /\ UNCHANGED <<avars, now, minted, notifications, outbox>>
  /\ result' = NoResult
  /\ UNCHANGED serial

\* userMarketingPreference.update of updateMarketingPreference; P2025 when
\* the row is gone
PreferenceUpdate(p) ==
  LET q == senders[p] IN
  /\ q.pc = "prefUpdate"
  /\ IF q.id \notin DOMAIN preferences THEN
       /\ reply' = Reply(q.op, q.id, "StoreError", "P2025", NoStats)
       /\ UNCHANGED preferences
     ELSE
       /\ preferences' = StoreUpdate(preferences, q.id, q.data)
       /\ reply' = Reply(q.op, q.id, "ok", "", NoStats)
  /\ senders' = [senders EXCEPT ![p] = IdleSender]
  /\ UNCHANGED <<avars, now, minted, notifications, outbox>>
  /\ result' = NoResult
  /\ UNCHANGED serial

\* variant: scheduling a notification makes it unsent again
ScheduleDataResets(scheduledDate) ==
  [timing |-> "SCHEDULED", scheduledDate |-> scheduledDate, sent |-> FALSE]

\* the columns written by scheduleMarketingNotification
ScheduleData(scheduledDate) == [timing |-> "SCHEDULED", scheduledDate |-> scheduledDate]

\* scheduleMarketingNotification: findUnique by id
ScheduleMarketingNotificationRead(p, id, scheduledDate) ==
  /\ senders[p].pc = "idle"
  /\ IF id \notin DOMAIN notifications THEN
       /\ reply' = Reply("scheduleMarketingNotification", id, "NotFound",
                         "Marketing notification not found", NoStats)
       /\ UNCHANGED senders
     ELSE
       /\ senders' = [senders EXCEPT ![p] =
            [IdleSender EXCEPT !.pc = "schedule", !.op = "scheduleMarketingNotification", !.id = id,
                               !.data = ScheduleData(scheduledDate)]]
       /\ reply' = NoReply
  /\ UNCHANGED <<avars, now, minted, notifications, preferences, outbox>>
  /\ result' = NoResult
  /\ Starts

\* scheduleMarketingNotification: the update
ScheduleMarketingNotificationWrite(p) ==
  LET q == senders[p] IN
  /\ q.pc = "schedule"
  /\ notifications' = StoreUpdate(notifications, q.id, q.data)
  /\ reply' = Reply(q.op, q.id, "ok", "", NoStats)
  /\ senders' = [senders EXCEPT ![p] = IdleSender]
  /\ UNCHANGED <<avars, now, minted, preferences, outbox>>
  /\ result' = NoResult
  /\ UNCHANGED serial

\* sendMarketingNotification: findUnique of the notification and the three
\* guards
SendRead(p, id) ==
  LET g == SendGuard(notifications, id, now) IN
  /\ senders[p].pc = "idle"
  /\ IF g.status # "ok" THEN
       /\ reply' = Reply("sendMarketingNotification", id, g.status, g.msg, NoStats)
       /\ UNCHANGED senders
     ELSE
       /\ senders' = [senders EXCEPT ![p] =
            [IdleSender EXCEPT !.pc = "find", !.op = "sendMarketingNotification", !.id = id,
                               !.data = notifications[id]]]
       /\ reply' = NoReply
  /\ UNCHANGED <<avars, now, minted, notifications, preferences, outbox>>
  /\ result' = NoResult
  /\ Starts

\* findMany of the opted-in preferences, for the category of the
\* notification as it was read; the query has no orderBy, the rows come in
\* an order of the store's choosing.  With no recipient the final update is
\* sent at once, its sentAt being the time of this step
SendFind(p) ==
  LET q == senders[p]
      optedInUsers == OptedInUsers(preferences, q.data.category)
  IN
  /\ q.pc = "find"
  /\ \E order \in Orderings(optedInUsers) :
       senders' = [senders EXCEPT ![p].pc = IF optedInUsers = {} THEN "update" ELSE "mail",
                                  ![p].todo = order,
                                  ![p].total = Len(order),
                                  ![p].at = IF optedInUsers = {} THEN now ELSE NullTime]
  /\ UNCHANGED <<avars, now, minted, notifications, preferences, outbox>>
  /\ reply' = NoReply
  /\ result' = NoResult
  /\ UNCHANGED serial

\* one iteration of the loop: sendMarketingEmail to the next recipient was
\* sent or has failed; after the last one the final update is sent, its
\* sentAt being the time of this step
SendMail(p, ok) ==
  LET q == senders[p]
      u == Head(q.todo)
  IN
  /\ q.pc = "mail"
  /\ outbox' = Mailed(outbox, q.id, u, ok)
  /\ senders' = [senders EXCEPT ![p].todo = Tail(q.todo),
                                ![p].successCount = q.successCount + (IF ok THEN 1 ELSE 0),
                                ![p].failureCount = q.failureCount + (IF ok THEN 0 ELSE 1),
                                ![p].pc = IF Len(q.todo) = 1 THEN "update" ELSE "mail",
                                ![p].at = IF Len(q.todo) = 1 THEN now ELSE NullTime]
  /\ UNCHANGED <<avars, now, minted, notifications, preferences>>
  /\ reply' = NoReply
  /\ result' = NoResult
  /\ UNCHANGED serial

\* the final update and the return
SendUpdate(p) ==
  LET q == senders[p] IN
  /\ q.pc = "update"
  /\ notifications' = StoreUpdate(notifications, q.id, SentData(q.at, q.successCount, q.failureCount))
  /\ reply' = Reply("sendMarketingNotification", q.id, "ok", "Marketing notification sent successfully",
                    [totalRecipients |-> q.total, successCount |-> q.successCount,
                     failureCount |-> q.failureCount])
  /\ senders' = [senders EXCEPT ![p] = IdleSender]
  /\ UNCHANGED <<avars, now, minted, preferences, outbox>>
  /\ result' = NoResult
  /\ UNCHANGED serial

(***************************************************************************)
(* Building blocks of the specifications: the steps of a call with its     *)
(* inputs drawn from the given sets.  In every specification the steps of  *)
(* the calls in the two request slots interleave freely; where the clock   *)
(* moves, it moves between any two of them.                                *)
(***************************************************************************)
PhoneConsumeOps == {"verifyPhone", "resetPasswordWithOTP"}
LocalPhone == {"08012345678"}
WrongOtp == <<0, 0, 0, 0, 0, 0>>

\* signUp up to the read of generatePhoneVerificationOTP
SignUpSteps(raws, emails, rests) ==
  \/ \E p \in Procs, raw \in raws, email \in emails, pw \in SignUpPasswords, rest \in rests :
       SignUpProbePhone(p, raw, email, pw, rest)
  \/ \E p \in Procs : SignUpProbeEmail(p)
  \/ \E p \in Procs : SignUpCreate(p)
  \/ \E p \in Procs : VerificationOtpRead(p)

\* the final update of an OTP issue and its SMS
IssueSteps(samples, smsOutcomes) ==
  \/ \E p \in Procs, r \in samples : IssueWrite(p, r)
  \/ \E p \in Procs, smsOk \in smsOutcomes : IssueSms(p, smsOk)

ConsumeSteps(ops, phones, otps, pws) ==
  \/ \E p \in Procs, op \in ops, phone \in phones, otp \in otps, pw \in pws : ConsumeRead(p, op, phone, otp, pw)
  \/ \E p \in Procs : ConsumeWrite(p)

\* generateResetToken
TokenSteps(emails, mailOutcomes) ==
  \/ \E p \in Procs, email \in emails : GenerateResetTokenRead(p, email)
  \/ \E p \in Procs : GenerateResetTokenWrite(p)
  \/ \E p \in Procs, mailOk \in mailOutcomes : GenerateResetTokenMail(p, mailOk)

\* resetPassword with a token produced so far or with one never produced
ResetPasswordSteps ==
  \/ \E p \in Procs, tok \in PresentableTokens(minted), pw \in NewPasswords : ResetPasswordQuery(p, tok, pw)
  \/ \E p \in Procs : ResetPasswordRead(p)
  \/ \E p \in Procs : ResetPasswordWrite(p)

LogInSteps(phones, pws) ==
  \/ \E p \in Procs, phone \in phones, pw \in pws : LogIn(p, phone, pw)
  \/ \E p \in Procs : LogInCompare(p)

(***************************************************************************)
(* Spec: the OTP issue requests of one identity for both slots, and the    *)
(* verification of its phone, on the five-minute instants across a         *)
(* calendar-date boundary.                                                 *)
(***************************************************************************)
Next ==
  \/ \E t \in GridInstants : Tick(t)
  \/ SignUpSteps(LocalPhone, SignUpEmails, NoRest)
  \/ \E p \in Procs : IssueLookup(p, CanonicalPhone)
  \/ \E p \in Procs : ResetOtpRead(p, CanonicalPhone)
  \/ \E p \in Procs : IssueReset(p)
  \/ IssueSteps({0}, {TRUE})
  \/ ConsumeSteps({"verifyPhone"}, {CanonicalPhone}, {GenerateOtp(0)}, {""})

Spec == Init /\ [][Next]_vars

(***************************************************************************)
(* SpecOrder: the same requests with one more instant, the last minute of  *)
(* the first calendar date, less than the minimum interval before the      *)
(* first instant of the next date.                                         *)
(***************************************************************************)
OrderInstants == GridInstants \cup {DayMinutes - 1}

NextOrder ==
  \/ \E t \in OrderInstants : Tick(t)
  \/ SignUpSteps(LocalPhone, SignUpEmails, NoRest)
  \/ \E p \in Procs : IssueLookup(p, CanonicalPhone)
  \/ \E p \in Procs : ResetOtpRead(p, CanonicalPhone)
  \/ \E p \in Procs : IssueReset(p)
  \/ IssueSteps({0}, {TRUE})
  \/ ConsumeSteps({"verifyPhone"}, {CanonicalPhone}, {GenerateOtp(0)}, {""})

SpecOrder == Init /\ [][NextOrder]_vars

(***************************************************************************)
(* SpecSms: password-reset OTP requests while the SMS gateway delivers or  *)
(* fails.                                                                  *)
(***************************************************************************)
NextSms ==
  \/ \E t \in GridInstants : Tick(t)
  \/ SignUpSteps(LocalPhone, SignUpEmails, NoRest)
  \/ \E p \in Procs : IssueLookup(p, CanonicalPhone)
  \/ \E p \in Procs : ResetOtpRead(p, CanonicalPhone)
  \/ \E p \in Procs : IssueReset(p)
  \/ IssueSteps({0}, BOOLEAN)

SpecSms == Init /\ [][NextSms]_vars

(***************************************************************************)
(* SpecAuth: the log-ins of one identity: it signs up, verifies its phone  *)
(* and logs in, while its row is updated or removed.                       *)
(***************************************************************************)
NextAuth ==
  \/ SignUpSteps(LocalPhone, SignUpEmails, NoRest)
  \/ IssueSteps({0}, {TRUE})
  \/ ConsumeSteps({"verifyPhone"}, {CanonicalPhone}, {GenerateOtp(0)}, {""})
  \/ LogInSteps(LookupPhones, Passwords)
  \/ \E p \in Procs, id \in 1..MaxUsers, dto \in UpdateDtos \cup RoleDtos : UserUpdate(p, id, dto)
  \/ \E p \in Procs : UserRemove(p, 1)

SpecAuth == Init /\ [][NextAuth]_vars

(***************************************************************************)
(* SpecSession: the tokens of one identity are presented until they        *)
(* expire, while the clock moves and the row is updated or removed: a      *)
(* token unexpired when validate is entered may be expired when the store  *)
(* answers.                                                                *)
(***************************************************************************)
NextSession ==
  \/ Tick(StartTime + JwtExpiryMinutes)
  \/ SignUpSteps(LocalPhone, SignUpEmails, NoRest)
  \/ IssueSteps({0}, {TRUE})
  \/ ConsumeSteps({"verifyPhone"}, {CanonicalPhone}, {GenerateOtp(0)}, {""})
  \/ LogInSteps({CanonicalPhone}, SignUpPasswords)
  \/ \E p \in Procs, payload \in tokens : Validate(p, payload)
  \/ \E p \in Procs : ValidateRead(p)
  \/ \E p \in Procs, dto \in UpdateDtos \cup RoleDtos : UserUpdate(p, 1, dto)
  \/ \E p \in Procs : UserRemove(p, 1)

SpecSession == Init /\ [][NextSession]_vars

(***************************************************************************)
(* SpecAdmin: registrations whose DTO carries further columns, and the     *)
(* administration of the identities: emails are changed and rows removed.  *)
(***************************************************************************)
AdminRests == NoRest \cup {[isPhoneVerified |-> TRUE], [isEmailVerified |-> FALSE]}

NextAdmin ==
  \/ SignUpSteps(LocalPhones, Emails, AdminRests)
  \/ IssueSteps({0}, {TRUE})
  \/ \E p \in Procs, id \in 1..MaxUsers, dto \in EmailDtos : UserUpdate(p, id, dto)
  \/ \E p \in Procs : UserRemove(p, 1)

SpecAdmin == Init /\ [][NextAdmin]_vars

(***************************************************************************)
(* SpecConsume: the codes of one identity are consumed, with the right and *)
(* with a wrong code, before, at and after their expiry.                   *)
(***************************************************************************)
NextConsume ==
  \/ \E t \in GridInstants : Tick(t)
  \/ SignUpSteps(LocalPhone, SignUpEmails, NoRest)
  \/ \E p \in Procs : ResetOtpRead(p, CanonicalPhone)
  \/ \E p \in Procs : IssueReset(p)
  \/ IssueSteps({0}, {TRUE})
  \/ ConsumeSteps(PhoneConsumeOps, {CanonicalPhone}, {GenerateOtp(0), WrongOtp}, NewPasswords)
  \/ \E p \in Procs, email \in SignUpEmails : ConsumeRead(p, "verifyEmail", email, GenerateOtp(0), "")

SpecConsume == Init /\ [][NextConsume]_vars

(***************************************************************************)
(* SpecReissue: codes are issued again for the slots of one identity, each *)
(* from the lowest or the highest random sample whichever operation asks   *)
(* for it, and submitted to the consume operations.                        *)
(***************************************************************************)
NextReissue ==
  \/ Tick(StartTime + 5)
  \/ SignUpSteps(LocalPhone, SignUpEmails, NoRest)
  \/ \E p \in Procs : IssueLookup(p, CanonicalPhone)
  \/ \E p \in Procs : ResetOtpRead(p, CanonicalPhone)
  \/ IssueSteps(RandomSamples, {TRUE})
  \/ ConsumeSteps(PhoneConsumeOps, {CanonicalPhone}, OtpCodes, NewPasswords)
  \/ \E p \in Procs, email \in SignUpEmails, otp \in OtpCodes : ConsumeRead(p, "verifyEmail", email, otp, "")

SpecReissue == Init /\ [][NextReissue]_vars

(***************************************************************************)
(* SpecSlots: every AuthService operation that reads or writes a           *)
(* credential slot of one identity, in one minute: the issues of both OTP  *)
(* slots from either random sample, the three consume operations,          *)
(* generateResetToken and resetPassword.                                   *)
(***************************************************************************)
NextSlots ==
  \/ SignUpSteps(LocalPhone, SignUpEmails, NoRest)
  \/ \E p \in Procs : IssueLookup(p, CanonicalPhone)
  \/ \E p \in Procs : ResetOtpRead(p, CanonicalPhone)
  \/ IssueSteps(RandomSamples, {TRUE})
  \/ ConsumeSteps(PhoneConsumeOps, {CanonicalPhone}, OtpCodes, NewPasswords)
  \/ \E p \in Procs, email \in SignUpEmails : ConsumeRead(p, "verifyEmail", email, GenerateOtp(0), "")
  \/ TokenSteps(SignUpEmails, {TRUE})
  \/ ResetPasswordSteps

SpecSlots == Init /\ [][NextSlots]_vars

(***************************************************************************)
(* SpecRecover: one identity recovers its password over SMS and logs in    *)
(* with the old and the new password.                                      *)
(***************************************************************************)
NextRecover ==
  \/ Tick(StartTime + 5)
  \/ SignUpSteps(LocalPhone, SignUpEmails, {[isPhoneVerified |-> TRUE]})
  \/ \E p \in Procs : ResetOtpRead(p, CanonicalPhone)
  \/ IssueSteps({0}, {TRUE})
  \/ ConsumeSteps({"resetPasswordWithOTP"}, {CanonicalPhone}, {GenerateOtp(0)}, Passwords)
  \/ LogInSteps({CanonicalPhone}, Passwords)

SpecRecover == Init /\ [][NextRecover]_vars

(***************************************************************************)
(* SpecReset: both password reset flows of one identity, over SMS and over *)
(* mail, while the mail service delivers or fails.                         *)
(***************************************************************************)
NextReset ==
  \/ Tick(StartTime + 5)
  \/ SignUpSteps(LocalPhone, SignUpEmails, NoRest)
  \/ \E p \in Procs : ResetOtpRead(p, CanonicalPhone)
  \/ IssueSteps({0}, {TRUE})
  \/ ConsumeSteps({"resetPasswordWithOTP"}, {CanonicalPhone}, {GenerateOtp(0)}, NewPasswords)
  \/ TokenSteps(SignUpEmails, BOOLEAN)
  \/ ResetPasswordSteps

SpecReset == Init /\ [][NextReset]_vars

(***************************************************************************)
(* SpecToken: the reset tokens of one identity, requested also for an      *)
(* email of no identity and presented before, at and after their expiry.   *)
(***************************************************************************)
NextToken ==
  \/ \E t \in HalfHourInstants : Tick(t)
  \/ SignUpSteps(LocalPhone, SignUpEmails, NoRest)
  \/ IssueSteps({0}, {TRUE})
  \/ TokenSteps(Emails, BOOLEAN)
  \/ ResetPasswordSteps

SpecToken == Init /\ [][NextToken]_vars

(***************************************************************************)
(* SpecSignUp: registrations with two phone numbers in local and           *)
(* international format and a malformed one, two emails, the DTO possibly  *)
(* carrying isPhoneVerified, the SMS gateway or the store failing during   *)
(* the OTP attempt.                                                        *)
(***************************************************************************)
NextSignUp ==
  \/ SignUpSteps(LocalPhones \cup RawPhones, Emails, {<<>>, [isPhoneVerified |-> TRUE]})
  \/ IssueSteps({0}, BOOLEAN)
  \/ \E p \in Procs : IssueWriteStoreDown(p)

SpecSignUp == Init /\ [][NextSignUp]_vars

(***************************************************************************)
(* SpecMarketing: one marketing notification is created, scheduled and     *)
(* sent to one recipient, before and at the scheduled date; the recipient  *)
(* is created and removed.                                                 *)
(***************************************************************************)
NextMarketing ==
  \/ Tick(StartTime + 60)
  \/ \E p \in Procs : UserCreate(p, "08012345678", RecipientEmail(1), "StrongPass123!", <<>>)
  \/ \E p \in Procs, id \in NotificationIds, dto \in CreateDtos : CreateMarketingNotification(p, id, dto)
  \/ \E p \in Procs : UserRemove(p, 1)
  \/ \E p \in Procs : GetUserMarketingPreferenceRead(p, 1)
  \/ \E p \in Procs : UpdateMarketingPreferenceRead(p, 1, RecipientEmail(1), <<>>)
  \/ \E p \in Procs : PreferenceCreate(p)
  \/ \E p \in Procs : PreferenceUpdate(p)
  \/ \E p \in Procs, id \in LookupNotificationIds, d \in ScheduleDates : ScheduleMarketingNotificationRead(p, id, d)
  \/ \E p \in Procs : ScheduleMarketingNotificationWrite(p)
  \/ \E p \in Procs, id \in LookupNotificationIds : SendRead(p, id)
  \/ \E p \in Procs : SendFind(p)
  \/ \E p \in Procs, ok \in BOOLEAN : SendMail(p, ok)
  \/ \E p \in Procs : SendUpdate(p)

SpecMarketing == Init /\ [][NextMarketing]_vars

(***************************************************************************)
(* SpecFanOut: one immediate notification is sent to the recipients that   *)
(* are opted in, while the preferences of two users are created and        *)
(* changed.                                                                *)
(***************************************************************************)
RecipientPhone(u) == IF u = 1 THEN "08012345678" ELSE "08087654321"

NextFanOut ==
  \/ \E p \in Procs, u \in Recipients : UserCreate(p, RecipientPhone(u), RecipientEmail(u), "StrongPass123!", <<>>)
  \/ \E p \in Procs, id \in NotificationIds, dto \in ImmediateDtos : CreateMarketingNotification(p, id, dto)
  \/ \E p \in Procs, u \in Recipients, dto \in PreferenceDtos :
       UpdateMarketingPreferenceRead(p, u, RecipientEmail(u), dto)
  \/ \E p \in Procs : PreferenceCreate(p)
  \/ \E p \in Procs : PreferenceUpdate(p)
  \/ \E p \in Procs, id \in NotificationIds : SendRead(p, id)
  \/ \E p \in Procs : SendFind(p)
  \/ \E p \in Procs, ok \in BOOLEAN : SendMail(p, ok)
  \/ \E p \in Procs : SendUpdate(p)

SpecFanOut == Init /\ [][NextFanOut]_vars
(***************************************************************************)
(* Properties.  A call decides on the row it read: the properties of one   *)
(* call are stated on the step that reads the row and on the steps that    *)
(* act on what was read; the properties of a history of calls are stated   *)
(* for the histories in which the calls are made one at a time (serial),   *)
(* unless they are about interleaved calls.                                *)
(***************************************************************************)
\* the value of a string of decimal digits
RECURSIVE DigitsValue(_)
DigitsValue(ds) == IF ds = <<>> THEN 0 ELSE 10 * DigitsValue(SubSeq(ds, 1, Len(ds) - 1)) + ds[Len(ds)]

IsSixDigitCode(code) ==
  /\ Len(code) = 6
  /\ \A k \in 1..6 : code[k] \in 0..9
  /\ DigitsValue(code) >= 100000
  /\ DigitsValue(code) <= 999999

\* the call in request slot p takes its step pc in this step and returns
Completes(p, pc) == procs[p].pc = pc /\ procs'[p].pc = "idle"

\* a call of op starts in request slot p in this step and is then in flight
Begins(p, op) == procs[p].pc = "idle" /\ procs'[p].pc # "idle" /\ procs'[p].op = op

\* a call of op starts and returns in this step
ReturnsAtOnce(op) == result'.op = op /\ procs' = procs

\* the columns of the stored row that logIn keeps after its read
LogInColumns == {"password", "isActive", "isPhoneVerified", "email", "phone", "role"}

\* C1: a logIn that read an identity whose phone is not verified signs no
\* access token, and with the stored phone and the correct password it fails
\* with Forbidden.
C1_UnverifiedLoginForbidden ==
  [][\A p \in Procs :
       /\ Begins(p, "logIn")
            => procs'[p].row = Columns(users[procs'[p].uid], LogInColumns)
       /\ (Completes(p, "compare") /\ ~procs[p].row.isPhoneVerified)
            => /\ result'.op = "logIn"
               /\ result'.token = NoPayload
               /\ result'.status # "ok"
               /\ tokens' = tokens
               /\ BcryptCompare(procs[p].pw, procs[p].row.password) => result'.status = "Forbidden"]_vars

C1_Witness ==
  /\ result.op = "logIn"
  /\ result.uid \in DOMAIN users
  /\ ~users[result.uid].isPhoneVerified
  /\ users[result.uid].isActive
  /\ result.key = users[result.uid].phone
  /\ BcryptCompare(result.pw, users[result.uid].password)
  /\ result.status = "Forbidden"
  /\ result.msg = "Please verify your phone number before logging in"
  /\ result.token = NoPayload

\* C2: logIn returns an access token exactly when the phone is registered, the
\* password matches, the identity is active and its phone is verified;
\* otherwise the outcome is the one of the first failing check in the order
\* absent, password mismatch, not active, phone not verified.
C2_LoginDecision ==
  [][/\ ReturnsAtOnce("logIn")
          => /\ ByPhone(users, result'.key) = {}
             /\ result'.status = "Unauthorized"
             /\ result'.msg = "Invalid credentials"
             /\ result'.token = NoPayload
             /\ tokens' = tokens
     /\ \A p \in Procs :
          Begins(p, "logIn")
            => /\ ByPhone(users, procs'[p].key) = {procs'[p].uid}
               /\ procs'[p].row = Columns(users[procs'[p].uid], LogInColumns)
     /\ \A p \in Procs :
          Completes(p, "compare")
            => LET user == procs[p].row
                   match == user.password = BcryptHash(procs[p].pw)
               IN /\ result'.op = "logIn"
                  /\ (result'.status = "ok") = (match /\ user.isActive /\ user.isPhoneVerified)
                  /\ (result'.token # NoPayload) = (result'.status = "ok")
                  /\ tokens' = IF result'.status = "ok" THEN tokens \cup {result'.token} ELSE tokens
                  /\ result'.status = "ok" => result'.token.sub = procs[p].uid
                  /\ ~match => result'.status = "Unauthorized" /\ result'.msg = "Invalid credentials"
                  /\ (match /\ ~user.isActive)
                       => result'.status = "Forbidden" /\ result'.msg = "Your account has been deactivated"
                  /\ (match /\ user.isActive /\ ~user.isPhoneVerified)
                       => /\ result'.status = "Forbidden"
                          /\ result'.msg = "Please verify your phone number before logging in"]_vars

C2_Witness ==
  /\ result.op = "logIn"
  /\ result.uid \in DOMAIN users
  /\ ~users[result.uid].isActive
  /\ ~users[result.uid].isPhoneVerified
  /\ BcryptCompare(result.pw, users[result.uid].password)
  /\ result.status = "Forbidden"
  /\ result.msg = "Your account has been deactivated"

\* C3: the identity a signUp created (valid phone, phone and email not
\* registered before) has, when signUp returns, isPhoneVerified = false,
\* isEmailVerified = true and a phone-verification slot holding a 6-digit
\* code in 100000..999999 that expires otpExpiryMinutes after the issue.
C3_SignUpCreatesUnverifiedWithOtp ==
  (serial /\ result.op = "signUp" /\ result.uid \in DOMAIN users)
    => LET u == users[result.uid] IN
         /\ u.phone = ValidatePhoneNumber(result.key).formattedNumber
         /\ u.email = result.aux
         /\ u.isPhoneVerified = FALSE
         /\ u.isEmailVerified = TRUE
         /\ IsSixDigitCode(u.phoneVerificationOTP)
         /\ u.phoneVerificationOTPExpires = u.lastOtpRequestTime + otpExpiryMinutes

\* C9: JwtStrategy.validate of a token issued earlier is rejected with
\* Unauthorized whenever the token's identity is deleted or inactive in the
\* store at that moment, and accepted whenever it exists and is active; the
\* decision uses no state other than the stored identity.
C9_LiveLookup ==
  result.op = "validate" =>
    /\ \E p \in tokens : p.sub = result.uid
    /\ IF result.uid \in DOMAIN users /\ users[result.uid].isActive
         THEN result.status = "ok" /\ result.token.sub = result.uid
         ELSE result.status = "Unauthorized" /\ result.token = NoPayload

C9_Witness ==
  /\ result.op = "validate"
  /\ result.status = "Unauthorized"
  /\ result.uid \in DOMAIN users
  /\ ~users[result.uid].isActive
  /\ \E p \in tokens : p.sub = result.uid /\ now < p.exp

\* C15: logIn with the raw local-format phone of a verified, active identity
\* (stored in normalized form) and the correct password returns a token with
\* sub equal to the identity's id, its role, and an expiry JwtExpiryMinutes
\* ahead.
C15_LocalFormatLogin ==
  \A i \in DOMAIN users :
    (/\ result.op = "logIn"
     /\ result.key = "08012345678"
     /\ users[i].phone = ValidatePhoneNumber(result.key).formattedNumber
     /\ users[i].isPhoneVerified
     /\ users[i].isActive
     /\ BcryptCompare(result.pw, users[i].password))
    => /\ result.status = "ok"
       /\ result.token.sub = i
       /\ result.token.role = users[i].role
       /\ result.token.exp = now + JwtExpiryMinutes

\* C16: logIn with a phone of no identity ends exactly like logIn with a
\* registered phone and a wrong password (Unauthorized, same message, no
\* token), whatever isActive and isPhoneVerified of the registered identity.
C16_UnknownLikeWrongPassword ==
  [][/\ ReturnsAtOnce("logIn")
          => /\ ByPhone(users, result'.key) = {}
             /\ result'.status = "Unauthorized"
             /\ result'.msg = "Invalid credentials"
             /\ result'.token = NoPayload
     /\ \A p \in Procs :
          (Completes(p, "compare") /\ ~BcryptCompare(procs[p].pw, procs[p].row.password))
            => /\ result'.status = "Unauthorized"
               /\ result'.msg = "Invalid credentials"
               /\ result'.token = NoPayload
               /\ tokens' = tokens]_vars

C16_Witness ==
  /\ result.op = "logIn"
  /\ result.status = "Unauthorized"
  /\ result.msg = "Invalid credentials"
  /\ result.uid \in DOMAIN users
  /\ ~users[result.uid].isActive
  /\ ~users[result.uid].isPhoneVerified
  /\ ~BcryptCompare(result.pw, users[result.uid].password)
  /\ result.key = users[result.uid].phone

\* C23: UserService.update and UserService.remove with an id that is not in
\* the store fail with NotFound and leave the store unchanged; NotFound is
\* reported for no other store error, which reaches the caller with its own
\* code, and no failed call changes the store.
C23_NotFoundTranslated ==
  [][result'.op \in {"update", "remove"}
     => /\ result'.uid \notin DOMAIN users
             => (result'.status = "NotFound" /\ users' = users)
        /\ result'.status = "NotFound" => result'.uid \notin DOMAIN users
        /\ (result'.uid \in DOMAIN users /\ result'.status # "ok")
             => /\ result'.status = "StoreError"
                /\ result'.msg = "P2002"
                /\ users' = users]_vars

C23_Witness ==
  /\ result.op = "update"
  /\ result.status = "NotFound"
  /\ result.uid \notin DOMAIN users
  /\ \E i \in DOMAIN users : i > result.uid

\* C30: the user JwtStrategy.validate attaches to a request carries the role,
\* email and phone stored for the identity at that moment, not the ones of
\* the token.
C30_FreshRole ==
  (result.op = "validate" /\ result.status = "ok")
    => /\ result.uid \in DOMAIN users
       /\ result.token.sub = result.uid
       /\ result.token.role = users[result.uid].role
       /\ result.token.email = users[result.uid].email
       /\ result.token.phone = users[result.uid].phone

C30_Witness ==
  /\ result.op = "validate"
  /\ result.status = "ok"
  /\ result.token.role = "ADMIN"
  /\ users[result.uid].role = "ADMIN"
  /\ \A p \in tokens : p.role = "USER"

MsgAlreadyVerified == "Phone number is already verified"
MsgNoOtp == "No OTP found. Please request a new one"
MsgExpired == "OTP has expired. Please request a new one"

NoIssueRead == [uid |-> 0, op |-> "", pc |-> "", msg |-> ""]

\* the read of a generate method taken in this step, if any: the identity it
\* read, the operation, where the request goes next ("idle": it returns)
\* and the message it returns with
IssueRead ==
  IF ReturnsAtOnce("generatePasswordResetOTP") /\ result'.uid # 0
    THEN [uid |-> result'.uid, op |-> result'.op, pc |-> "idle", msg |-> result'.msg]
  ELSE IF \E p \in Procs : Begins(p, "generatePasswordResetOTP")
    THEN LET p == CHOOSE p \in Procs : Begins(p, "generatePasswordResetOTP")
         IN [uid |-> procs'[p].uid, op |-> procs'[p].op, pc |-> procs'[p].pc, msg |-> ""]
  ELSE IF \E p \in Procs : procs[p].pc = "lookup" /\ procs'[p].pc # "lookup" /\ procs[p].uid \in DOMAIN users
    THEN LET p == CHOOSE p \in Procs : procs[p].pc = "lookup" /\ procs'[p].pc # "lookup"
         IN [uid |-> procs[p].uid, op |-> procs[p].op, pc |-> procs'[p].pc, msg |-> result'.msg]
  ELSE NoIssueRead

\* the final update of the issue request in slot p is applied in this step
Writes(p) == procs[p].pc = "write" /\ procs'[p].pc = "sms"

\* the time of the request that is rejected by the daily cap in this step
CapRejectedAt ==
  IF \E p \in Procs : Completes(p, "reset")
    THEN procs[CHOOSE p \in Procs : Completes(p, "reset")].at
    ELSE now

\* C4: calls being made one at a time, an issue request that is at least
\* otpMinIntervalMinutes after the previous issue is permitted exactly when
\* fewer than otpDailyLimit issues were made for the identity on the calendar
\* date of the request: the first otpDailyLimit requests of a date pass, the
\* next one is rejected by the daily cap, and the first request of a later
\* date passes again.
C4_DailyCapPerDate ==
  [][/\ \A p \in Procs :
          (serial' /\ Writes(p))
            => IssuesOn(issues, procs[p].uid, DateOf(procs[p].at)) < otpDailyLimit
     /\ (serial' /\ result'.op \in {"resendVerificationOTP", "generatePasswordResetOTP"}
           /\ result'.msg = DailyLimitMessage)
          => IssuesOn(issues, result'.uid, DateOf(CapRejectedAt)) >= otpDailyLimit]_vars

\* the resend request that returns from its own lookup in this step
ResendLookupReturns == ReturnsAtOnce("resendVerificationOTP") /\ result'.uid # 0

\* the time since the latest issue written for identity id is below the
\* minimum interval
WithinInterval(id) == id \in DOMAIN issues /\ now - issues[id].at < otpMinIntervalMinutes

\* C5 as stated: within otpMinIntervalMinutes of a successful issue every
\* issue request fails RateLimited, writes nothing and sends no SMS.
C5_Original ==
  [][/\ (ResendLookupReturns /\ WithinInterval(result'.uid))
          => result'.msg = WaitMessage(otpMinIntervalMinutes - (now - issues[result'.uid].at))
     /\ (IssueRead.uid # 0 /\ WithinInterval(IssueRead.uid))
          => /\ IssueRead.pc = "idle"
             /\ IssueRead.op # "signUp"
                  => /\ result'.status = "BadRequest"
                     /\ result'.msg = WaitMessage(otpMinIntervalMinutes - (now - issues[IssueRead.uid].at))
             /\ result'.sms = "none"
             /\ users' = users]_vars

\* C5 (amended): within otpMinIntervalMinutes of a successful issue every issue
\* request for either slot fails, writes nothing and sends no SMS; it fails
\* RateLimited, except that a phone-verification request for an identity
\* verified in the meantime fails AlreadyVerified (signUp swallows the
\* failure of the issue it makes itself and returns its own result).
C5_MinIntervalRejects ==
  [][/\ (ResendLookupReturns /\ WithinInterval(result'.uid))
          => /\ users[result'.uid].isPhoneVerified
             /\ result'.status = "BadRequest"
             /\ result'.msg = MsgAlreadyVerified
             /\ result'.sms = "none"
             /\ users' = users
             /\ issues' = issues
     /\ (IssueRead.uid # 0 /\ WithinInterval(IssueRead.uid))
          => /\ IssueRead.pc = "idle"
             /\ IssueRead.op # "signUp"
                  => /\ result'.status = "BadRequest"
                     /\ result'.msg =
                          IF IssueRead.op = "resendVerificationOTP" /\ users[IssueRead.uid].isPhoneVerified
                            THEN MsgAlreadyVerified
                            ELSE WaitMessage(otpMinIntervalMinutes - (now - issues[IssueRead.uid].at))
             /\ result'.sms = "none"
             /\ users' = users
             /\ issues' = issues]_vars

C5_Witness ==
  /\ result.op = "generatePasswordResetOTP"
  /\ result.msg = WaitMessage(3)
  /\ result.uid \in DOMAIN issues
  /\ now - issues[result.uid].at = 2
  /\ users[result.uid].phoneVerificationOTP # NullStr
  /\ users[result.uid].resetPasswordOTP = NullStr
  /\ users[result.uid].lastOtpRequestTime = issues[result.uid].at

\* C6: the daily budget is per identity: calls being made one at a time, the
\* issues of both slots are counted in the one otpRequestCount (on the first
\* calendar date it equals the number of issues written for the identity),
\* and on one calendar date the issues of both slots together never exceed
\* otpDailyLimit.
C6_SharedDailyBudget ==
  serial =>
    \A id \in DOMAIN issues \cap DOMAIN users :
      /\ issues[id].n <= otpDailyLimit
      /\ DateOf(now) = DateOf(StartTime) => users[id].otpRequestCount = issues[id].n

C6_Witness ==
  /\ serial
  /\ result.op = "generatePasswordResetOTP"
  /\ result.sms = "sent"
  /\ result.uid \in DOMAIN issues \cap DOMAIN users
  /\ issues[result.uid].n = otpDailyLimit
  /\ users[result.uid].otpRequestCount = otpDailyLimit
  /\ users[result.uid].phoneVerificationOTPExpires > StartTime + otpExpiryMinutes
  /\ users[result.uid].resetPasswordOTP # NullStr

\* C18: calls being made one at a time, after every successful OTP issue the
\* stored otpRequestCount of the identity equals the number of its successful
\* issues on the calendar date of lastOtpRequestTime; the first issue of a
\* later date leaves it at 1.
C18_CountMatchesIssues ==
  [][\A id \in DOMAIN issues' \cap DOMAIN users' :
       (serial' /\ (id \notin DOMAIN issues \/ issues'[id] # issues[id]))
         => /\ DateOf(users'[id].lastOtpRequestTime) = issues'[id].date
            /\ users'[id].otpRequestCount = issues'[id].n]_vars

\* C20: under every interleaving of issue requests for one identity no
\* increment of otpRequestCount is lost: while the calendar date is the one
\* of the first issue, the stored count equals the number of successful
\* issues.
C20_NoLostIncrement ==
  DateOf(now) = DateOf(StartTime)
    => \A id \in DOMAIN users \cap DOMAIN issues : users[id].otpRequestCount = issues[id].n

\* C24: an issue request is decided by the first failing check in the order
\* already verified, minimum interval, counter reset, daily cap.  A request
\* rejected as already verified or by the minimum interval changes nothing,
\* even across a change of the calendar date; on a later calendar date the
\* counter is set to 0 before the daily cap is tested on the count that was
\* read, so that a request rejected by the cap there leaves otpRequestCount
\* at 0 and every other column unchanged; on the same date it changes
\* nothing.
C24_CheckOrderAndFrame ==
  [][/\ ResendLookupReturns
          => users[result'.uid].isPhoneVerified /\ result'.msg = MsgAlreadyVerified /\ users' = users
     /\ IssueRead.uid # 0 =>
          LET r == IssueRead
              u == users[r.uid]
              verified == r.op # "generatePasswordResetOTP" /\ u.isPhoneVerified
          IN /\ users' = users
             /\ r.pc = "idle" => result'.sms = "none"
             /\ verified => r.pc = "idle" /\ (r.op # "signUp" => r.msg = MsgAlreadyVerified)
             /\ (~verified /\ TooSoon(u, now))
                  => r.pc = "idle" /\ (r.op # "signUp" => r.msg = WaitMessage(WaitMinutes(u, now)))
             /\ (~verified /\ ~TooSoon(u, now) /\ DateChanged(u, now)) => r.pc = "reset"
             /\ (~verified /\ ~TooSoon(u, now) /\ ~DateChanged(u, now) /\ OverDailyLimit(u))
                  => r.pc = "idle" /\ (r.op # "signUp" => r.msg = DailyLimitMessage)
             /\ (~verified /\ ~TooSoon(u, now) /\ ~DateChanged(u, now) /\ ~OverDailyLimit(u))
                  => r.pc = "write"
     /\ \A p \in Procs :
          (procs[p].pc = "reset" /\ procs'[p].pc # "reset" /\ procs[p].uid \in DOMAIN users)
            => /\ users' = [users EXCEPT ![procs[p].uid].otpRequestCount = 0]
               /\ IF OverDailyLimit(procs[p].row)
                    THEN /\ procs'[p].pc = "idle"
                         /\ result'.sms = "none"
                         /\ procs[p].op # "signUp" => result'.msg = DailyLimitMessage
                    ELSE procs'[p].pc = "write"]_vars

\* a request made within the minimum interval on the next calendar date is
\* rejected and the full counter of the previous date stays
C24_Witness ==
  /\ result.op = "resendVerificationOTP"
  /\ result.msg = WaitMessage(3)
  /\ result.uid \in DOMAIN users
  /\ DateOf(users[result.uid].lastOtpRequestTime) # DateOf(now)
  /\ users[result.uid].otpRequestCount = otpDailyLimit
  /\ ~users[result.uid].isPhoneVerified

\* C25: when the SMS dispatch of an issue that passed every check fails, the
\* call reports an error and what was written before the dispatch stays: the
\* failure changes nothing in the store, and, calls being made one at a time,
\* the slot holds the new code and its expiry, lastOtpRequestTime is the
\* request time and otpRequestCount is one more than the count the request
\* read.
C25_SmsFailureKeepsState ==
  [][\A p \in Procs :
       (Completes(p, "sms") /\ result'.sms = "failed")
         => LET q == procs[p] IN
              /\ users' = users
              /\ issues' = issues
              /\ q.op # "signUp" => result'.status # "ok"
              /\ IsSixDigitCode(result'.otp)
              /\ result'.otp = q.otp
              /\ q.expiry >= q.at + otpExpiryMinutes
              /\ (serial' /\ q.uid \in DOMAIN users)
                   => LET u == users'[q.uid] IN
                        /\ u.lastOtpRequestTime = q.at
                        /\ u.otpRequestCount = q.row.otpRequestCount + 1
                        /\ IF q.op = "generatePasswordResetOTP"
                             THEN u.resetPasswordOTP = q.otp /\ u.resetPasswordOTPExpires = q.expiry
                             ELSE u.phoneVerificationOTP = q.otp /\ u.phoneVerificationOTPExpires = q.expiry]_vars

C25_Witness ==
  /\ serial
  /\ result.op = "generatePasswordResetOTP"
  /\ result.sms = "failed"
  /\ result.status = "BadRequest"
  /\ result.uid \in DOMAIN users
  /\ users[result.uid].resetPasswordOTP = result.otp
  /\ users[result.uid].lastOtpRequestTime = issues[result.uid].at
  /\ users[result.uid].otpRequestCount = otpDailyLimit

\* C26: the final update of an issue request stores the count the request
\* read plus one, whatever was written since it read (last write wins), and
\* the request goes on to send its SMS: of two requests that both read
\* before either writes, both succeed and the count grows by one.
C26_LastWriteWins ==
  [][\A p \in Procs :
       /\ (Writes(p) /\ procs[p].uid \in DOMAIN users)
            => /\ users'[procs[p].uid].otpRequestCount = procs[p].row.otpRequestCount + 1
               /\ users'[procs[p].uid].lastOtpRequestTime = procs[p].at
               /\ issues'[procs[p].uid].n = IssuesOn(issues, procs[p].uid, DateOf(procs[p].at)) + 1
       /\ (procs[p].pc = "write" /\ procs'[p].pc # "write" /\ procs[p].uid \in DOMAIN users)
            => Writes(p)
       /\ Completes(p, "sms")
            => /\ result'.sms = "sent"
               /\ result'.status = "ok"]_vars

C26_Witness ==
  /\ AllIdle
  /\ result.op = "generatePasswordResetOTP"
  /\ result.status = "ok"
  /\ result.sms = "sent"
  /\ DateOf(now) = DateOf(StartTime)
  /\ issues[result.uid].n = 3
  /\ issues[result.uid].at = now
  /\ users[result.uid].otpRequestCount = 2
  /\ users[result.uid].phoneVerificationOTPExpires = now + otpExpiryMinutes
  /\ users[result.uid].resetPasswordOTPExpires = now + otpExpiryMinutes

\* C31: isPhoneVerified of an identity changes only from false to true, and
\* only by the update of a verifyPhone call, which is sent only by a call
\* that read the submitted code in the phone slot no later than its expiry;
\* every verifyPhone and every resendVerificationOTP that reads the identity
\* once the flag is true is rejected with BadRequest and changes nothing.
C31_VerifiedIsFinal ==
  [][/\ \A i \in DOMAIN users \cap DOMAIN users' :
          users'[i].isPhoneVerified # users[i].isPhoneVerified
            => /\ ~users[i].isPhoneVerified
               /\ users'[i].isPhoneVerified
               /\ result'.op = "verifyPhone"
               /\ result'.status = "ok"
               /\ result'.uid = i
               /\ \E p \in Procs : Completes(p, "consume") /\ procs[p].op = "verifyPhone" /\ procs[p].uid = i
     /\ \A p \in Procs :
          Begins(p, "verifyPhone")
            => LET u == users[procs'[p].uid] IN
                 /\ ~u.isPhoneVerified
                 /\ u.phoneVerificationOTP # NullStr
                 /\ u.phoneVerificationOTP = procs'[p].otp
                 /\ now <= u.phoneVerificationOTPExpires
     /\ \A op \in {"verifyPhone", "resendVerificationOTP"} :
          (ReturnsAtOnce(op) /\ result'.uid \in DOMAIN users /\ users[result'.uid].isPhoneVerified)
            => /\ result'.status = "BadRequest"
               /\ result'.msg = MsgAlreadyVerified
               /\ result'.sms = "none"
               /\ users' = users
     /\ \A p \in Procs :
          (/\ procs[p].pc = "lookup"
           /\ procs'[p].pc # "lookup"
           /\ procs[p].op = "resendVerificationOTP"
           /\ procs[p].uid \in DOMAIN users
           /\ users[procs[p].uid].isPhoneVerified)
            => /\ procs'[p].pc = "idle"
               /\ result'.status = "BadRequest"
               /\ result'.msg = MsgAlreadyVerified
               /\ users' = users
     /\ \A p \in Procs :
          (Begins(p, "resendVerificationOTP") \/ Begins(p, "verifyPhone"))
            => ~users[procs'[p].uid].isPhoneVerified]_vars

C31_Witness ==
  /\ result.op = "resendVerificationOTP"
  /\ result.status = "BadRequest"
  /\ result.msg = MsgAlreadyVerified
  /\ result.uid \in DOMAIN users
  /\ users[result.uid].isPhoneVerified
  /\ users[result.uid].phoneVerificationOTP = NullStr
  /\ now > StartTime

\* C32: under any interleaving of issue requests the stored otpRequestCount
\* of every identity is between 0 and the daily limit inclusive.
C32_CountWithinLimit ==
  \A i \in DOMAIN users :
    /\ users[i].otpRequestCount >= 0
    /\ users[i].otpRequestCount <= otpDailyLimit

C32_Witness ==
  /\ AllIdle
  /\ result.op \in {"resendVerificationOTP", "generatePasswordResetOTP"}
  /\ result.status = "ok"
  /\ result.uid \in DOMAIN users
  /\ users[result.uid].otpRequestCount = otpDailyLimit
  /\ users[result.uid].lastOtpRequestTime = now
  /\ issues[result.uid].n > otpDailyLimit

MsgInvalidOtp == "Invalid OTP"

\* the code of the slot a consume operation reads
SlotCode(op, u) ==
  IF op = "verifyPhone" THEN u.phoneVerificationOTP
  ELSE IF op = "verifyEmail" THEN u.emailVerificationOTP
  ELSE u.resetPasswordOTP

\* the verified flag that a consume operation tests before its slot
SlotVerified(op, u) ==
  IF op = "verifyPhone" THEN u.isPhoneVerified
  ELSE IF op = "verifyEmail" THEN u.isEmailVerified
  ELSE FALSE

\* the message of a consume attempt on a slot that was consumed
ConsumedMessage(op) ==
  IF op = "verifyPhone" THEN MsgAlreadyVerified
  ELSE IF op = "verifyEmail" THEN "Email is already verified"
  ELSE MsgNoOtp

\* the consume call that returned in the last step with success is followed
\* in this step by a call of the same operation with the same key and code
SecondAttempt(op) ==
  /\ result.op = op
  /\ result.status = "ok"
  /\ ReturnsAtOnce(op)
  /\ result'.key = result.key
  /\ result'.otp = result.otp

\* C7 as stated: a slot is consumed once, and the second attempt with the same
\* code fails with 'no OTP found' for every slot.
C7_Original ==
  [][\A op \in ConsumeOps :
       /\ \A p \in Procs : ~(result.op = op /\ result.status = "ok" /\ Begins(p, op)
                              /\ procs'[p].key = result.key /\ procs'[p].otp = result.otp)
       /\ SecondAttempt(op)
            => /\ result'.status = "BadRequest"
               /\ result'.msg = MsgNoOtp
               /\ users' = users]_vars

\* C7 (amended): after a consume attempt succeeded with code c, a second
\* attempt on the same slot with the same code and no issue in between fails
\* and changes nothing: resetPasswordWithOTP fails with 'no OTP found',
\* verifyPhone and verifyEmail fail with 'already verified', their flag being
\* tested before the slot.  Whatever happened since, a verified identity and
\* an empty reset slot are rejected so.
C7_ConsumedOnce ==
  [][\A op \in ConsumeOps :
       /\ \A p \in Procs : ~(result.op = op /\ result.status = "ok" /\ Begins(p, op)
                              /\ procs'[p].key = result.key /\ procs'[p].otp = result.otp)
       /\ SecondAttempt(op)
            => /\ result'.status = "BadRequest"
               /\ result'.msg = ConsumedMessage(op)
               /\ users' = users
       /\ \A p \in Procs :
            Begins(p, op)
              => /\ ~SlotVerified(op, users[procs'[p].uid])
                 /\ SlotCode(op, users[procs'[p].uid]) # NullStr
       /\ \A p \in Procs :
            (Completes(p, "consume") /\ procs[p].op = op /\ result'.status = "ok")
              => /\ SlotCode(op, users'[procs[p].uid]) = NullStr
                 /\ SlotExpires(op, users'[procs[p].uid]) = NullTime
                 /\ op = "verifyPhone" => users'[procs[p].uid].isPhoneVerified]_vars

C7_Witness ==
  /\ result.op = "resetPasswordWithOTP"
  /\ result.status = "BadRequest"
  /\ result.msg = MsgNoOtp
  /\ result.otp = GenerateOtp(0)
  /\ result.uid \in DOMAIN users
  /\ users[result.uid].password = BcryptHash(result.pw)
  /\ users[result.uid].resetPasswordOTP = NullStr
  /\ users[result.uid].phoneVerificationOTP # NullStr

\* C8 as stated: a consume attempt with the matching code made at the expiry
\* of the slot fails with Expired.
C8_Original ==
  [][\A op \in ConsumeOps : \A p \in Procs :
       ~(Begins(p, op) /\ now = SlotExpires(op, users[procs'[p].uid]))]_vars

\* C8 (amended): a consume attempt with the matching code passes its checks
\* when it is made no later than the expiry of the slot, the expiry itself
\* included, and its update empties the slot; it fails with Expired and
\* leaves the slot populated only when it is made later than the expiry.
C8_ExpiryBoundary ==
  [][\A op \in ConsumeOps :
       /\ \A p \in Procs :
            Begins(p, op) => now <= SlotExpires(op, users[procs'[p].uid])
       /\ (/\ ReturnsAtOnce(op)
           /\ result'.uid \in DOMAIN users
           /\ ~SlotVerified(op, users[result'.uid])
           /\ SlotCode(op, users[result'.uid]) # NullStr
           /\ SlotCode(op, users[result'.uid]) = result'.otp)
            => /\ now > SlotExpires(op, users[result'.uid])
               /\ result'.status = "BadRequest"
               /\ result'.msg = MsgExpired
               /\ users' = users
       /\ (ReturnsAtOnce(op) /\ result'.msg = MsgExpired)
            => now > SlotExpires(op, users[result'.uid])
       /\ \A p \in Procs :
            (Completes(p, "consume") /\ procs[p].op = op /\ result'.status = "ok")
              => SlotCode(op, users'[procs[p].uid]) = NullStr]_vars

\* a call made at the expiry of the slot has emptied it
C8_Witness ==
  /\ result.op = "resetPasswordWithOTP"
  /\ result.status = "ok"
  /\ result.expires = now
  /\ result.uid \in DOMAIN users
  /\ users[result.uid].resetPasswordOTP = NullStr
  /\ users[result.uid].resetPasswordOTPExpires = NullTime

\* the checks of verifyPhone pass on the store us at time t
VerifyPhoneAccepts(us, phone, otp, t) ==
  \E i \in DOMAIN us :
    /\ us[i].phone = phone
    /\ ~us[i].isPhoneVerified
    /\ us[i].phoneVerificationOTP # NullStr
    /\ us[i].phoneVerificationOTPExpires # NullTime
    /\ t <= us[i].phoneVerificationOTPExpires
    /\ us[i].phoneVerificationOTP = otp

\* C17: verifyPhone passes its checks exactly when an identity with the phone
\* exists, is not phone-verified, has a populated phone slot that is not past
\* its expiry, and the submitted code is the stored one; every failing case
\* is a BadRequest that changes nothing; the update of a call that passed
\* sets isPhoneVerified and clears the code and the expiry of the slot in one
\* write.
C17_VerifyPhoneDecision ==
  [][/\ ReturnsAtOnce("verifyPhone")
          => /\ ~VerifyPhoneAccepts(users, result'.key, result'.otp, now)
             /\ result'.status = "BadRequest"
             /\ users' = users
     /\ \A p \in Procs :
          Begins(p, "verifyPhone")
            => /\ VerifyPhoneAccepts(users, procs'[p].key, procs'[p].otp, now)
               /\ users[procs'[p].uid].phone = procs'[p].key
               /\ users' = users
     /\ \A p \in Procs :
          (Completes(p, "consume") /\ procs[p].op = "verifyPhone" /\ result'.status = "ok")
            => users' = [users EXCEPT ![procs[p].uid].isPhoneVerified = TRUE,
                                      ![procs[p].uid].phoneVerificationOTP = NullStr,
                                      ![procs[p].uid].phoneVerificationOTPExpires = NullTime]]_vars

C17_Witness ==
  /\ result.op = "verifyPhone"
  /\ result.status = "ok"
  /\ result.otp = GenerateOtp(0)
  /\ result.expires >= now
  /\ now > StartTime
  /\ result.uid \in DOMAIN users
  /\ users[result.uid].isPhoneVerified
  /\ users[result.uid].phoneVerificationOTP = NullStr
  /\ users[result.uid].phoneVerificationOTPExpires = NullTime
  /\ users[result.uid].resetPasswordOTP # NullStr

\* C27: an issued OTP authorizes its side effect at most once, also under
\* concurrency: the update of a consume call that succeeds finds the code it
\* submitted still in the slot.
C27_ConsumeAtMostOnce ==
  [][\A p \in Procs :
       (Completes(p, "consume") /\ result'.status = "ok" /\ procs[p].uid \in DOMAIN users)
         => SlotCode(procs[p].op, users[procs[p].uid]) = procs[p].otp]_vars

\* C28: the OTP slots are independent: the phone slot is written only by the
\* issue of a phone code and by verifyPhone, the reset slot only by the issue
\* of a reset code and by resetPasswordWithOTP, the email slot by none of
\* them, and the reset-token slot only by the update of generateResetToken
\* and the update of resetPassword, so that no issue and no consume of an
\* OTP changes it; a consume operation accepts a code only when it is the
\* code of its own slot.
C28_SlotsIndependent ==
  [][/\ \A i \in DOMAIN users \cap DOMAIN users' :
          /\ (\/ users'[i].phoneVerificationOTP # users[i].phoneVerificationOTP
              \/ users'[i].phoneVerificationOTPExpires # users[i].phoneVerificationOTPExpires)
               => \E p \in Procs :
                    /\ procs[p].uid = i
                    /\ \/ Writes(p) /\ procs[p].op \in {"signUp", "resendVerificationOTP"}
                       \/ Completes(p, "consume") /\ procs[p].op = "verifyPhone"
          /\ (\/ users'[i].resetPasswordOTP # users[i].resetPasswordOTP
              \/ users'[i].resetPasswordOTPExpires # users[i].resetPasswordOTPExpires)
               => \E p \in Procs :
                    /\ procs[p].uid = i
                    /\ \/ Writes(p) /\ procs[p].op = "generatePasswordResetOTP"
                       \/ Completes(p, "consume") /\ procs[p].op = "resetPasswordWithOTP"
          /\ users'[i].emailVerificationOTP = users[i].emailVerificationOTP
          /\ users'[i].emailVerificationOTPExpires = users[i].emailVerificationOTPExpires
          /\ (\/ users'[i].resetPasswordToken # users[i].resetPasswordToken
              \/ users'[i].resetPasswordExpires # users[i].resetPasswordExpires)
               => \E p \in Procs :
                    /\ procs[p].uid = i
                    /\ \/ procs[p].pc = "token" /\ procs[p].op = "generateResetToken"
                       \/ Completes(p, "resetPassword") /\ procs[p].op = "resetPassword"
     /\ \A op \in ConsumeOps : \A p \in Procs :
          Begins(p, op)
            => /\ procs'[p].otp = SlotCode(op, users[procs'[p].uid])
               /\ procs'[p].otp # NullStr]_vars

\* the code of the phone slot is refused by resetPasswordWithOTP while the
\* reset slot holds another code and the reset-token slot a token
C28_Witness ==
  /\ result.op = "resetPasswordWithOTP"
  /\ result.uid \in DOMAIN users
  /\ users[result.uid].resetPasswordToken # NullToken
  /\ result.status = "BadRequest"
  /\ result.msg = MsgInvalidOtp
  /\ result.otp = users[result.uid].phoneVerificationOTP
  /\ users[result.uid].resetPasswordOTP # NullStr
  /\ users[result.uid].resetPasswordOTP # result.otp
  /\ now <= users[result.uid].resetPasswordOTPExpires

\* C29: the update of a successful resetPasswordWithOTP stores the hash of
\* the new password, nothing else changes a password, and logIn compares
\* with the hash it read: for an active, phone-verified identity logIn with
\* the new password succeeds and logIn with the previous one fails with
\* Unauthorized.
C29_NewPasswordOnly ==
  [][/\ \A p \in Procs :
          (Completes(p, "consume") /\ procs[p].op = "resetPasswordWithOTP" /\ result'.status = "ok")
            => users'[procs[p].uid].password = BcryptHash(procs[p].pw)
     /\ \A i \in DOMAIN users \cap DOMAIN users' :
          users'[i].password # users[i].password
            => \E p \in Procs : /\ Completes(p, "consume")
                                /\ procs[p].op = "resetPasswordWithOTP"
                                /\ procs[p].uid = i
     /\ \A p \in Procs :
          Begins(p, "logIn") => procs'[p].row.password = users[procs'[p].uid].password
     /\ \A p \in Procs :
          (Completes(p, "compare") /\ procs[p].row.isActive /\ procs[p].row.isPhoneVerified)
            => IF BcryptHash(procs[p].pw) = procs[p].row.password
                 THEN result'.status = "ok" /\ result'.token # NoPayload
                 ELSE result'.status = "Unauthorized" /\ result'.token = NoPayload]_vars

\* after the reset, calls being made one at a time, the password of the
\* sign-up is refused
C29_Witness ==
  /\ serial
  /\ result.op = "logIn"
  /\ result.status = "Unauthorized"
  /\ result.pw \in SignUpPasswords
  /\ result.uid \in DOMAIN users
  /\ users[result.uid].password = BcryptHash("Other456?")
  /\ users[result.uid].isPhoneVerified
  /\ users[result.uid].isActive
  /\ users[result.uid].resetPasswordOTP = NullStr

\* C33: at most one code per slot is accepted at any time: the update of an
\* issue replaces the code of its slot by the code it sends, a consume
\* operation passes only the code of the slot, and any other code submitted
\* for a populated slot that has not expired, the code of an earlier issue
\* included, is rejected as a mismatch.
C33_OneCodePerSlot ==
  [][/\ \A p \in Procs :
          (Writes(p) /\ procs[p].uid \in DOMAIN users')
            => /\ procs'[p].otp # NullStr
               /\ IF procs[p].op = "generatePasswordResetOTP"
                    THEN users'[procs[p].uid].resetPasswordOTP = procs'[p].otp
                    ELSE users'[procs[p].uid].phoneVerificationOTP = procs'[p].otp
     /\ \A op \in ConsumeOps : \A p \in Procs :
          Begins(p, op) => procs'[p].otp = SlotCode(op, users[procs'[p].uid])
     /\ \A op \in ConsumeOps :
          (/\ ReturnsAtOnce(op)
           /\ result'.uid \in DOMAIN users
           /\ ~SlotVerified(op, users[result'.uid])
           /\ SlotCode(op, users[result'.uid]) # NullStr
           /\ now <= SlotExpires(op, users[result'.uid])
           /\ result'.otp # SlotCode(op, users[result'.uid]))
            => /\ result'.status = "BadRequest"
               /\ result'.msg = MsgInvalidOtp
               /\ users' = users]_vars

\* the first code written to the phone slot is refused by verifyPhone after
\* a later issue stored another code there, before the expiry of the first
C33_Witness ==
  /\ result.op = "verifyPhone"
  /\ result.status = "BadRequest"
  /\ result.msg = MsgInvalidOtp
  /\ result.uid \in DOMAIN users \cap DOMAIN issues
  /\ result.otp = issues[result.uid].first.phone
  /\ users[result.uid].phoneVerificationOTP # NullStr
  /\ users[result.uid].phoneVerificationOTP # result.otp
  /\ issues[result.uid].n >= 2
  /\ now <= StartTime + otpExpiryMinutes

\* C34: a consume attempt that fails leaves the store as it is: the slot is
\* not cleared, no counter changes and the password is untouched; a wrong
\* guess is a mismatch only while the code of the slot is another one, so
\* that the right code submitted after it is still refused only as expired.
C34_FailedConsumeChangesNothing ==
  [][\A op \in ConsumeOps :
       /\ ReturnsAtOnce(op)
            => /\ result'.status = "BadRequest"
               /\ users' = users
               /\ issues' = issues
               /\ tokens' = tokens
       /\ (ReturnsAtOnce(op) /\ result'.msg = MsgInvalidOtp)
            => /\ SlotCode(op, users[result'.uid]) # NullStr
               /\ SlotCode(op, users[result'.uid]) # result'.otp
       /\ (/\ result.op = op
           /\ result.msg = MsgInvalidOtp
           /\ ReturnsAtOnce(op)
           /\ result'.key = result.key
           /\ result'.otp # result.otp
           /\ result'.otp = SlotCode(op, users[result.uid]))
            => result'.msg = MsgExpired
       /\ \A p \in Procs :
            (result.op = op /\ result.msg = MsgInvalidOtp /\ Begins(p, op))
              => SlotCode(op, users[procs'[p].uid]) = procs'[p].otp]_vars

C34_Witness ==
  /\ result.op = "resetPasswordWithOTP"
  /\ result.status = "BadRequest"
  /\ result.msg = MsgInvalidOtp
  /\ result.otp = WrongOtp
  /\ result.uid \in DOMAIN users
  /\ users[result.uid].resetPasswordOTP = GenerateOtp(0)
  /\ now <= users[result.uid].resetPasswordOTPExpires
  /\ users[result.uid].password # BcryptHash(result.pw)

MsgBadToken == "Invalid or expired reset token"

\* C10: generateResetToken with an email of no identity returns normally,
\* sends no mail and changes nothing; it goes on to write a token only for
\* the email of an identity.
C10_UnknownEmailSilent ==
  [][/\ ReturnsAtOnce("generateResetToken")
          => /\ ByEmail(users, result'.key) = {}
             /\ result'.uid = 0
             /\ result'.status = "ok"
             /\ result'.msg = ""
             /\ result'.mail = "none"
             /\ users' = users
     /\ \A p \in Procs :
          Begins(p, "generateResetToken")
            => /\ procs'[p].uid \in DOMAIN users
               /\ users[procs'[p].uid].email = procs'[p].key
               /\ users' = users]_vars

C10_Witness ==
  /\ result.op = "generateResetToken"
  /\ result.uid = 0
  /\ result.status = "ok"
  /\ result.mail = "none"
  /\ users # <<>>
  /\ \A i \in DOMAIN users : users[i].email # result.key /\ users[i].resetPasswordToken = NullToken

\* the findFirst of the resetPassword call in slot p is answered in this step
Answered(p) == procs[p].pc = "findFirst" /\ procs'[p].pc # "findFirst"

\* C11: resetPassword with a token whose expiry has passed, the instant of
\* the expiry included, has the outcome of resetPassword with a token that
\* was never issued: BadRequest with the one message, no identity named,
\* nothing written.  The time compared with the expiry is the time at which
\* the call was made; the call goes on to its update exactly when the token
\* is stored with an expiry after that time.
C11_ExpiredLikeUnknown ==
  [][\A p \in Procs :
       Answered(p)
         => /\ users' = users
            /\ IF \E i \in DOMAIN users : /\ users[i].resetPasswordToken = procs[p].key
                                          /\ procs[p].at < users[i].resetPasswordExpires
                 THEN /\ procs'[p].pc = "resetPassword"
                      /\ users[procs'[p].uid].resetPasswordToken = procs[p].key
                      /\ procs[p].at < users[procs'[p].uid].resetPasswordExpires
                      /\ result' = NoResult
                 ELSE /\ procs'[p].pc = "idle"
                      /\ result' = Res("resetPassword", procs[p].key, 0, NullStr, procs[p].pw, "BadRequest",
                                       MsgBadToken, "none", "none", NoPayload)]_vars

\* the stored token is refused in a call made at the instant of its expiry
C11_Witness ==
  /\ result.op = "resetPassword"
  /\ result.status = "BadRequest"
  /\ result.msg = MsgBadToken
  /\ \E i \in DOMAIN users :
       /\ users[i].resetPasswordToken = result.key
       /\ users[i].resetPasswordExpires = now
       /\ users[i].password # BcryptHash(result.pw)

\* C12: calls being made one at a time, after every successful password
\* update of a reset flow (resetPasswordWithOTP or resetPassword) both the
\* reset OTP slot and the reset-token slot of the identity are empty.
C12_ResetClearsBothSlots ==
  [][\A p \in Procs :
       (/\ serial'
        /\ result'.status = "ok"
        /\ \/ Completes(p, "consume") /\ procs[p].op = "resetPasswordWithOTP"
           \/ Completes(p, "resetPassword"))
         => /\ users'[procs[p].uid].resetPasswordOTP = NullStr
            /\ users'[procs[p].uid].resetPasswordToken = NullToken]_vars

\* C19: in every reachable state, for every identity and every credential
\* slot, the code is null exactly when the expiry is null.
C19_CodeIffExpiry ==
  \A i \in DOMAIN users :
    /\ (users[i].phoneVerificationOTP = NullStr) <=> (users[i].phoneVerificationOTPExpires = NullTime)
    /\ (users[i].emailVerificationOTP = NullStr) <=> (users[i].emailVerificationOTPExpires = NullTime)
    /\ (users[i].resetPasswordOTP = NullStr) <=> (users[i].resetPasswordOTPExpires = NullTime)
    /\ (users[i].resetPasswordToken = NullToken) <=> (users[i].resetPasswordExpires = NullTime)

C19_Witness ==
  /\ result.op = "resetPassword"
  /\ result.status = "ok"
  /\ result.uid \in DOMAIN users
  /\ users[result.uid].resetPasswordToken = NullToken
  /\ users[result.uid].resetPasswordExpires = NullTime
  /\ users[result.uid].resetPasswordOTP # NullStr
  /\ users[result.uid].phoneVerificationOTP # NullStr

\* C21: what is stored in an OTP slot or in the reset-token slot is never the
\* plaintext that is sent: calls being made one at a time, after an SMS or a
\* mail was sent the slot does not hold the code or token that was sent.
C21_StoredNotPlaintext ==
  (serial /\ result.uid \in DOMAIN users)
    => /\ (result.sms = "sent" /\ result.op = "generatePasswordResetOTP")
            => users[result.uid].resetPasswordOTP # result.otp
       /\ (result.sms = "sent" /\ result.op \in {"signUp", "resendVerificationOTP"})
            => users[result.uid].phoneVerificationOTP # result.otp
       /\ result.mail = "sent" => users[result.uid].resetPasswordToken # result.aux

\* C22 as stated: generateResetToken for a registered email succeeds.
C22_AlwaysSucceeds ==
  [][\A p \in Procs :
       (procs[p].op = "generateResetToken" /\ procs[p].pc # "idle" /\ procs'[p].pc = "idle")
         => result'.status = "ok"]_vars

\* C22 (amended): generateResetToken for a registered email is subject to no
\* minimum interval and no daily cap: it is never refused at its read, it
\* always goes on to its update, which sets the token and an expiry one hour
\* after the request and leaves every other column (lastOtpRequestTime,
\* otpRequestCount, the three OTP slots, the password, the flags) as it is,
\* and it returns normally exactly when the mail service accepted the mail;
\* when the mail service failed it raises that error with the token stored.
C22_ResetTokenFrame ==
  [][/\ ReturnsAtOnce("generateResetToken") => ByEmail(users, result'.key) = {}
     /\ \A p \in Procs :
          Begins(p, "generateResetToken") => users' = users /\ issues' = issues
     /\ \A p \in Procs :
          (procs[p].pc = "token" /\ procs'[p].pc # "token" /\ procs[p].uid \in DOMAIN users)
            => /\ procs'[p].pc = "mail"
               /\ procs[p].tok # NullToken
               /\ users' = [users EXCEPT ![procs[p].uid].resetPasswordToken = procs[p].tok,
                                         ![procs[p].uid].resetPasswordExpires = procs[p].at + ResetTokenMinutes]
               /\ issues' = issues
     /\ \A p \in Procs :
          Completes(p, "mail")
            => /\ users' = users
               /\ issues' = issues
               /\ result'.mail \in {"sent", "failed"}
               /\ result'.status = (IF result'.mail = "sent" THEN "ok" ELSE "Error")
               /\ result'.aux = procs[p].tok]_vars

\* calls being made one at a time, a token is mailed in the minute of the
\* second OTP issue of the identity, when an OTP request would be too soon
C22_Witness ==
  /\ serial
  /\ result.op = "generateResetToken"
  /\ result.status = "ok"
  /\ result.mail = "sent"
  /\ result.uid \in DOMAIN users
  /\ users[result.uid].resetPasswordToken = result.aux
  /\ users[result.uid].resetPasswordExpires = now + ResetTokenMinutes
  /\ users[result.uid].lastOtpRequestTime = now
  /\ users[result.uid].otpRequestCount = 2
  /\ users[result.uid].phoneVerificationOTP # NullStr
  /\ users[result.uid].resetPasswordOTP # NullStr

\* C35: at most one reset token per identity is redeemable, the latest one
\* generated, until it is used or expires: resetPassword goes on to its
\* update only with the token that is stored, which, calls being made one at
\* a time, is the last one generated; a generated token differs from every
\* stored one, the update of generateResetToken replaces the stored token,
\* and the update of resetPassword removes it, so that a token is refused
\* after its use and after a newer one was generated.
C35_OneRedeemableToken ==
  [][/\ \A p \in Procs :
          (Answered(p) /\ procs'[p].pc = "resetPassword")
            => /\ users[procs'[p].uid].resetPasswordToken = procs[p].key
               /\ procs[p].at < users[procs'[p].uid].resetPasswordExpires
               /\ serial' => procs[p].key = HexTokens[minted]
     /\ \A p \in Procs :
          (Answered(p) /\ procs'[p].pc = "idle")
            => /\ result'.status = "BadRequest"
               /\ users' = users
               /\ \A i \in DOMAIN users :
                    users[i].resetPasswordToken = procs[p].key => procs[p].at >= users[i].resetPasswordExpires
     /\ \A p \in Procs :
          Begins(p, "generateResetToken")
            => \A i \in DOMAIN users : users[i].resetPasswordToken # procs'[p].tok
     /\ \A p \in Procs :
          (procs[p].pc = "token" /\ procs'[p].pc = "mail")
            => users'[procs[p].uid].resetPasswordToken = procs[p].tok
     /\ \A p \in Procs :
          (Completes(p, "resetPassword") /\ result'.status = "ok")
            => /\ users'[procs[p].uid].resetPasswordToken = NullToken
               /\ users'[procs[p].uid].resetPasswordExpires = NullTime
               /\ users'[procs[p].uid].password = BcryptHash(procs[p].pw)]_vars

\* calls being made one at a time, the first token is refused once a newer
\* one is stored, before the expiry of either
C35_Witness ==
  /\ serial
  /\ result.op = "resetPassword"
  /\ result.status = "BadRequest"
  /\ result.key = HexTokens[1]
  /\ \E i \in DOMAIN users :
       /\ users[i].resetPasswordToken = HexTokens[2]
       /\ now < users[i].resetPasswordExpires
       /\ now < StartTime + ResetTokenMinutes

MsgPhoneExists == "User with this phone number already exists"
MsgEmailExists == "User with this email already exists"
MsgCreateFailed == "Failed to create user"
MsgOtpFailed == "User created successfully, but OTP sending failed. Please try to resend OTP."

\* C13: signUp whose phone normalizes to the phone of a stored identity,
\* whatever format was typed, or whose email is the email of a stored
\* identity, fails with BadRequest and creates nothing; the phone is probed
\* first, so that the phone duplicate is the one reported when both collide.
C13_DuplicateRejected ==
  [][/\ ReturnsAtOnce("signUp")
          => /\ result'.status = "BadRequest"
             /\ users' = users
             /\ ValidatePhoneNumber(result'.key).isValid
                  => /\ ByPhone(users, ValidatePhoneNumber(result'.key).formattedNumber) # {}
                     /\ result'.msg = MsgPhoneExists
     /\ \A p \in Procs :
          Begins(p, "signUp")
            => /\ procs'[p].phone = ValidatePhoneNumber(procs'[p].key).formattedNumber
               /\ ByPhone(users, procs'[p].phone) = {}
               /\ users' = users
     /\ \A p \in Procs :
          (procs[p].pc = "probeEmail" /\ procs'[p].pc # "probeEmail")
            => IF ByEmail(users, procs[p].email) # {}
                 THEN /\ procs'[p].pc = "idle"
                      /\ result'.status = "BadRequest"
                      /\ result'.msg = MsgEmailExists
                      /\ users' = users
                 ELSE procs'[p].pc = "create" /\ users' = users]_vars

\* phone and email both collide, the phone typed in local format
C13_Witness ==
  /\ result.op = "signUp"
  /\ result.status = "BadRequest"
  /\ result.msg = MsgPhoneExists
  /\ result.key = "08012345678"
  /\ Cardinality(DOMAIN users) = 1
  /\ \E i \in DOMAIN users : users[i].phone = CanonicalPhone /\ users[i].email = result.aux

\* C14: when the OTP attempt of signUp fails after the identity was created,
\* for whatever reason (a check, the store update, the SMS dispatch), signUp
\* returns a success result with the 'try to resend OTP' message, and the
\* created identity stays in the store.
C14_OtpFailureKeepsIdentity ==
  [][\A p \in Procs :
       (/\ procs[p].op = "signUp"
        /\ procs[p].pc \in {"lookup", "reset", "write", "sms"}
        /\ procs'[p].pc = "idle")
         => /\ result'.op = "signUp"
            /\ result'.status = "ok"
            /\ result'.uid = procs[p].uid
            /\ result'.msg = IF result'.sms = "sent"
                               THEN "User created successfully. Please verify your phone number with the OTP sent to your phone."
                               ELSE MsgOtpFailed
            /\ result'.sms = "sent" => procs[p].pc = "sms"
            /\ procs[p].uid \in DOMAIN users'
            /\ users' = users]_vars

C14_Witness ==
  /\ result.op = "signUp"
  /\ result.status = "ok"
  /\ result.msg = MsgOtpFailed
  /\ result.sms = "failed"
  /\ result.uid \in DOMAIN users
  /\ users[result.uid].phoneVerificationOTP # NullStr
  /\ users[result.uid].otpRequestCount = 1

\* no two rows share a phone or an email
UniquePhoneAndEmail(us) ==
  \A i, j \in DOMAIN us : i # j => us[i].phone # us[j].phone /\ us[i].email # us[j].email

\* C36: under every interleaving of signUp calls no two identities share a
\* phone or an email: the create of a call that passed both probes is
\* rejected by the store when a row with its phone or its email was created
\* in the meantime, the call then fails with BadRequest and creates nothing.
C36_UniquePhoneAndEmail ==
  [][/\ UniquePhoneAndEmail(users')
     /\ \A p \in Procs :
          (procs[p].pc = "create" /\ procs'[p].pc # "create")
            => IF \E i \in DOMAIN users : \/ users[i].phone = procs[p].phone
                                          \/ users[i].email = procs[p].email
                 THEN /\ procs'[p].pc = "idle"
                      /\ result'.status = "BadRequest"
                      /\ result'.msg = MsgCreateFailed
                      /\ users' = users
                 ELSE /\ procs'[p].pc = "lookup"
                      /\ DOMAIN users' = DOMAIN users \cup {procs'[p].uid}
                      /\ procs'[p].uid \notin DOMAIN users
                      /\ users'[procs'[p].uid].phone = procs[p].phone
                      /\ users'[procs'[p].uid].email = procs[p].email]_vars

\* the create of the second of two concurrent signUps was rejected
C36_Witness ==
  /\ result.op = "signUp"
  /\ result.status = "BadRequest"
  /\ result.msg = MsgCreateFailed
  /\ Cardinality(DOMAIN users) = 1
  /\ \E i \in DOMAIN users :
       users[i].phone = ValidatePhoneNumber(result.key).formattedNumber /\ users[i].email # result.aux

\* sendMarketingNotification returns from its guards in this step
SendReturnsAtOnce == reply'.op = "sendMarketingNotification" /\ senders' = senders

\* the scheduled date of notification n is still ahead at time t
NotYetDue(n, t) == n.timing = "SCHEDULED" /\ n.scheduledDate # NullTime /\ t < n.scheduledDate

\* C37: a marketing notification is sent at most once in a sequential
\* history: its sent flag, once true, stays true (scheduling does not reset
\* it), every sendMarketingNotification call that reads it sent, or
\* scheduled for a date still ahead, fails with BadRequest and sends
\* nothing, and, calls being made one at a time, no recipient is mailed the
\* notification twice.
C37_SentOnceSequentially ==
  [][/\ \A id \in DOMAIN notifications :
          notifications[id].sent => id \in DOMAIN notifications' /\ notifications'[id].sent
     /\ (SendReturnsAtOnce /\ reply'.id \in DOMAIN notifications)
          => /\ notifications[reply'.id].sent \/ NotYetDue(notifications[reply'.id], now)
             /\ reply'.status = "BadRequest"
             /\ outbox' = outbox
             /\ notifications' = notifications
     /\ \A p \in Procs :
          (senders[p].pc = "idle" /\ senders'[p].pc = "find")
            => /\ ~notifications[senders'[p].id].sent
               /\ ~NotYetDue(notifications[senders'[p].id], now)
     /\ outbox' # outbox => \E p \in Procs : senders[p].pc = "mail" /\ senders'[p] # senders[p]
     /\ serial' => \A k \in DOMAIN outbox' : outbox'[k].attempts <= 1]_vars

\* a notification that was sent and scheduled afterwards is refused
C37_Witness ==
  /\ serial
  /\ reply.op = "sendMarketingNotification"
  /\ reply.status = "BadRequest"
  /\ reply.msg = "Notification has already been sent"
  /\ reply.id \in DOMAIN notifications
  /\ notifications[reply.id].sent
  /\ notifications[reply.id].timing = "SCHEDULED"
  /\ notifications[reply.id].scheduledDate = StartTime + 60
  /\ notifications[reply.id].sentAt < notifications[reply.id].scheduledDate
  /\ <<reply.id, 1>> \in DOMAIN outbox
  /\ outbox[<<reply.id, 1>>].attempts = 1

\* C38: also when two sendMarketingNotification calls for one unsent
\* notification interleave, each recipient is mailed the notification at
\* most once, and a call reports success only for a notification that no
\* other call has marked sent.
C38_SentOnceConcurrently ==
  [][/\ \A k \in DOMAIN outbox' : outbox'[k].delivered <= 1
     /\ \A p \in Procs :
          (senders[p].pc = "update" /\ senders'[p].pc = "idle" /\ reply'.status = "ok")
            => ~notifications[senders[p].id].sent]_vars

\* the recipients of a category as the where clause selects them
OptedIn(prefs, category) ==
  {u \in DOMAIN prefs : prefs[u][GetCategorySubscriptionField(category)] = TRUE /\ prefs[u].preferEmail = TRUE}

\* the recipients of the sequence todo
Listed(todo) == {todo[k] : k \in 1..Len(todo)}

\* C39: a sendMarketingNotification call that passed its guards selects
\* every recipient opted in to the category with preferEmail, each once, in
\* whatever order the store returns them, attempts one delivery for each of
\* them in that order whether or not an earlier one failed, and then marks
\* the notification sent with successCount + failureCount equal to the
\* number of recipients it selected, which, calls being made one at a time,
\* is the number of opted-in recipients.
C39_FanOutComplete ==
  [][\A p \in Procs :
       LET q == senders[p] IN
       /\ (q.pc = "find" /\ senders'[p].pc # "find")
            => /\ Listed(senders'[p].todo) = OptedIn(preferences, q.data.category)
               /\ Len(senders'[p].todo) = Cardinality(OptedIn(preferences, q.data.category))
               /\ senders'[p].total = Len(senders'[p].todo)
               /\ senders'[p].pc = IF senders'[p].todo = <<>> THEN "update" ELSE "mail"
       /\ (q.pc = "mail" /\ senders'[p] # q)
            => /\ q.todo # <<>>
               /\ senders'[p].todo = Tail(q.todo)
               /\ outbox'[<<q.id, Head(q.todo)>>].attempts =
                    (IF <<q.id, Head(q.todo)>> \in DOMAIN outbox
                       THEN outbox[<<q.id, Head(q.todo)>>].attempts ELSE 0) + 1
               /\ senders'[p].successCount + senders'[p].failureCount = q.successCount + q.failureCount + 1
               /\ senders'[p].pc = IF senders'[p].todo = <<>> THEN "update" ELSE "mail"
       /\ (q.pc = "update" /\ senders'[p].pc = "idle")
            => /\ q.todo = <<>>
               /\ q.successCount + q.failureCount = q.total
               /\ notifications'[q.id].sent
               /\ notifications'[q.id].successCount = q.successCount
               /\ notifications'[q.id].failureCount = q.failureCount
               /\ reply'.status = "ok"
               /\ reply'.stats = [totalRecipients |-> q.total, successCount |-> q.successCount,
                                  failureCount |-> q.failureCount]
               /\ serial' => q.total = Cardinality(OptedIn(preferences, q.data.category))]_vars

\* calls being made one at a time, the store returned recipient 2 before
\* recipient 1: the delivery to 2 was attempted first and failed, and the
\* delivery to 1 was made after it
C39_Witness ==
  /\ serial
  /\ reply.op = "sendMarketingNotification"
  /\ reply.status = "ok"
  /\ reply.stats = [totalRecipients |-> 2, successCount |-> 1, failureCount |-> 1]
  /\ notifications[reply.id].sent
  /\ outbox[<<reply.id, 2>>].attempts = 1
  /\ outbox[<<reply.id, 2>>].delivered = 0
  /\ outbox[<<reply.id, 1>>].attempts = 1
  /\ outbox[<<reply.id, 1>>].delivered = 1
  /\ outbox[<<reply.id, 2>>].last < outbox[<<reply.id, 1>>].last
====
